---- MODULE Spec2Model ----
(***************************************************************************)
(* The Alchemist's Forge: the staged generation pipeline (ideation,        *)
(* design rendering, listing copy + mockup batch, publish) and the         *)
(* retrying remote-call executor (withRetry) that wraps the generative-AI  *)
(* calls.                                                                  *)
(*                                                                         *)
(* Every `await` of the source is a step boundary: the code between two    *)
(* awaits runs atomically (single-threaded event loop), so each action     *)
(* below is one handler, or one continuation of an async handler.          *)
(***************************************************************************)
EXTENDS Integers, Sequences, FiniteSets, TLC

VARIABLES
    \* ---- App component state (useState hooks) ----
    step, isLoading, error, showSettings, printifyToken, productType,
    variations, selectedVariations, generatedDesigns, selectedDesigns,
    finalizedProducts,
    \* ---- position and locals of the running async handler ----
    pc, batch, idx, newDesigns, allFinalAssets,
    listingCopy, mockupUrls, tmpl,
    \* ---- withRetry: parameters and locals of the current call ----
    maxRetries, initialDelay, retries, delay, execState, lastError, thrown,
    result,
    \* ---- the collaborators and the observation of the run ----
    collabImages, fetchLog, paceLog, inFlight, activeFlows, attempts, waits,
    callLog, doneLog, progressLog, outcome

appVars  == <<step, isLoading, error, showSettings, printifyToken, productType,
              variations, selectedVariations, generatedDesigns,
              selectedDesigns, finalizedProducts>>
flowVars == <<pc, batch, idx, newDesigns, allFinalAssets, listingCopy,
              mockupUrls, tmpl>>
execVars == <<maxRetries, initialDelay, retries, delay, execState, lastError,
              thrown, result, attempts, waits>>
obsVars  == <<collabImages, fetchLog, paceLog, callLog, doneLog, progressLog,
              outcome>>
vars     == <<appVars, flowVars, execVars, obsVars, inFlight, activeFlows>>

----------------------------------------------------------------------------
(* Bounds of the model *)

\* a caller of withRetry outside the application passes a maxRetries in
\* 0..MaxRetriesBound, or leaves the default
MaxRetriesBound == 3

(* Program constants *)
DefaultMaxRetries   == 5
DefaultInitialDelay == 2000
PacingDelay         == 1500
NumTemplates        == 12

InitialDelays == {DefaultInitialDelay, 1}

----------------------------------------------------------------------------
(* Error objects.  A remote failure is an object with an optional numeric  *)
(* status at the top level, under .response or under .error, and an        *)
(* optional message at the top level or under .error.  0 stands for an     *)
(* absent (falsy) status, <<>> for an absent (falsy) message.  A message   *)
(* is a sequence of words.                                                 *)

(* isError tells an Error instance from a raw response object.             *)

\* new Error(msg)
MkError(msg) ==
    [isError |-> TRUE, status |-> 0, response_status |-> 0, error_code |-> 0,
     message |-> msg, error_message |-> <<>>]

\* the SDK's ApiError: an Error with a status
MkApiError(st, msg) ==
    [isError |-> TRUE, status |-> st, response_status |-> 0, error_code |-> 0,
     message |-> msg, error_message |-> <<>>]

\* a raw response body { error: { code, message } }
MkRawError(code, msg) ==
    [isError |-> FALSE, status |-> 0, response_status |-> 0,
     error_code |-> code, message |-> <<>>, error_message |-> msg]

\* no error caught (yet)
NoError == [isError |-> FALSE, status |-> -1, response_status |-> 0,
            error_code |-> 0, message |-> <<>>, error_message |-> <<>>]

Statuses == {0, 400, 403, 429, 500, 502, 503}

Messages == { <<>>,
              <<"Bad", "request">>,
              <<"Bad", "Gateway">>,
              <<"Too", "Many", "Requests">>,
              <<"Permission", "denied", "for", "internal", "project">>,
              <<"Quota", "exceeded">>,
              <<"HTTP", "429">>,
              <<"Internal", "Server", "Error">>,
              <<"The", "model", "is", "overloaded">> }

ErrorShapes ==
    [isError : BOOLEAN,
     status : Statuses, response_status : {0, 503}, error_code : {0, 429},
     message : Messages,
     error_message : { <<>>, <<"RESOURCE_EXHAUSTED">> }]

\* the failures the generative service answers the application with
AppErrors == { MkApiError(503, <<"The", "model", "is", "overloaded">>),
               MkApiError(400, <<"Bad", "request">>) }

AssetErrors == AppErrors \cup
               { MkApiError(0,   <<"Quota", "exceeded">>),
                 MkRawError(400, <<"Bad", "request">>) }

----------------------------------------------------------------------------
(* withRetry: classification of a caught error *)

\* error.status || error.response?.status || error.error?.code
StatusOf(e) ==
    IF e.status # 0 THEN e.status
    ELSE IF e.response_status # 0 THEN e.response_status
    ELSE e.error_code

\* `${status}` in a template string
StatusText(s) == IF s = 0 THEN "undefined" ELSE ToString(s)

\* JSON.stringify(error): the enumerable fields that are present
Serialise(e) ==
    (IF e.status # 0 THEN <<"status", ToString(e.status)>> ELSE <<>>) \o
    (IF e.response_status # 0
        THEN <<"response", "status", ToString(e.response_status)>> ELSE <<>>) \o
    (IF e.error_code # 0
        THEN <<"error", "code", ToString(e.error_code)>> ELSE <<>>)

\* error.message || error.error?.message || JSON.stringify(error)
MessageOf(e) ==
    IF e.message # <<>> THEN e.message
    ELSE IF e.error_message # <<>> THEN e.error_message
    ELSE Serialise(e)

LowerWord(w) ==
    CASE w = "Bad"                -> "bad"
      [] w = "Gateway"            -> "gateway"
      [] w = "Too"                -> "too"
      [] w = "Many"               -> "many"
      [] w = "Requests"           -> "requests"
      [] w = "Permission"         -> "permission"
      [] w = "Quota"              -> "quota"
      [] w = "HTTP"               -> "http"
      [] w = "Internal"           -> "internal"
      [] w = "Server"             -> "server"
      [] w = "Error"              -> "error"
      [] w = "The"                -> "the"
      [] w = "RESOURCE_EXHAUSTED" -> "resource_exhausted"
      [] OTHER                    -> w

\* String(message).toLowerCase()
ToLowerCase(msg) == [i \in 1..Len(msg) |-> LowerWord(msg[i])]

\* msg.includes(marker), on word sequences
Includes(msg, marker) ==
    \E i \in 1..(Len(msg) - Len(marker) + 1) :
        \A j \in 1..Len(marker) : msg[i + j - 1] = marker[j]

Markers_noOverloaded == { <<"429">>, <<"resource_exhausted">>, <<"quota">>,
                          <<"internal">>, <<"server", "error">> }

Markers == { <<"429">>, <<"resource_exhausted">>, <<"quota">>,
             <<"internal">>, <<"overloaded">>, <<"server", "error">> }

isRetryable(e) ==
    \/ \E m \in Markers : Includes(ToLowerCase(MessageOf(e)), m)
    \/ StatusOf(e) = 500
    \/ StatusOf(e) = 503

ShouldRetry_offByOne(e, r, m) == isRetryable(e) /\ r <= m

ShouldRetry_anyError(e, r, m) == r < m

ShouldRetry_twoMore(e, r, m) == isRetryable(e) /\ r < m + 2

\* if (isRetryable && retries < maxRetries)
ShouldRetry(e, r, m) == isRetryable(e) /\ r < m

NextDelay_constant(d) == d

\* delay *= 2
NextDelay(d) == d * 2

BusyError_generic(s) ==
    MkError(<<"The AI service is temporarily busy.",
              "Please try again shortly.">>)

\* new Error(`The AI service is temporarily busy (Error ${status}). ...`)
BusyError(s) ==
    MkError(<<"The AI service is temporarily busy (Error", StatusText(s),
              "). Please try again shortly.">>)

\* the error withRetry throws when it gives up on e
ThrownFor(e) == IF isRetryable(e) THEN BusyError(StatusOf(e)) ELSE e

----------------------------------------------------------------------------
(* withRetry: the retry loop.  execState is the position in the loop:      *)
(* Attempting (awaiting apiCall()), Waiting (awaiting the backoff timer),  *)
(* and the three ways the call ends.                                       *)

NoCopy == [titleLen |-> 0, descLen |-> 0, tagCount |-> 0, maxTagLen |-> 0]

\* what a remote call resolves with: ok tells whether the payload the stage
\* looks for (parsable JSON, an inline image) is there
Response(ok, concepts, data, copy, value) ==
    [ok |-> ok, concepts |-> concepts, data |-> data, copy |-> copy,
     value |-> value]

NoResult == Response(FALSE, <<>>, -1, NoCopy, "none")

\* response.candidates[0].content.parts can be read: the answer has no
\* candidate at all, or its first candidate has content
HasParts(r) == r.value # "nocontent"

\* reading .parts of an undefined content
NoContentError ==
    MkError(<<"Cannot read properties of undefined (reading 'parts')">>)

ExecIdle ==
    /\ maxRetries' = DefaultMaxRetries
    /\ initialDelay' = DefaultInitialDelay
    /\ retries' = 0
    /\ delay' = DefaultInitialDelay
    /\ execState' = "Idle"
    /\ lastError' = NoError
    /\ thrown' = NoError
    /\ result' = NoResult
    /\ attempts' = 0
    /\ waits' = <<>>

ExecBegin_carriesOver(m, d) ==
    /\ maxRetries' = m
    /\ initialDelay' = d
    /\ retries' = retries
    /\ delay' = delay
    /\ execState' = "Attempting"
    /\ lastError' = NoError
    /\ thrown' = NoError
    /\ result' = NoResult
    /\ attempts' = 1
    /\ waits' = <<>>
    /\ inFlight' = inFlight + 1

\* withRetry(apiCall, m, d) up to its first await: retries = 0, delay = d,
\* and the first apiCall() is issued
ExecBegin(m, d) ==
    /\ maxRetries' = m
    /\ initialDelay' = d
    /\ retries' = 0
    /\ delay' = d
    /\ execState' = "Attempting"
    /\ lastError' = NoError
    /\ thrown' = NoError
    /\ result' = NoResult
    /\ attempts' = 1
    /\ waits' = <<>>
    /\ inFlight' = inFlight + 1

ExecReturn_lostAfterRetry(v) ==
    /\ execState = "Attempting"
    /\ execState' = "Succeeded"
    /\ result' = IF retries > 0 THEN NoResult ELSE v
    /\ inFlight' = inFlight - 1
    /\ UNCHANGED <<maxRetries, initialDelay, retries, delay, lastError, thrown,
                   attempts, waits>>

\* return await apiCall(): the attempt resolved with value v
ExecReturn(v) ==
    /\ execState = "Attempting"
    /\ execState' = "Succeeded"
    /\ result' = v
    /\ inFlight' = inFlight - 1
    /\ UNCHANGED <<maxRetries, initialDelay, retries, delay, lastError, thrown,
                   attempts, waits>>

\* catch (error), retry branch: retries++, then await the timer for `delay`
ExecBackoff(e) ==
    /\ retries' = retries + 1
    /\ execState' = "Waiting"
    /\ lastError' = e
    /\ waits' = Append(waits, delay)
    /\ inFlight' = inFlight - 1
    /\ UNCHANGED <<maxRetries, initialDelay, delay, thrown, result, attempts>>

\* catch (error), else branch: throw the busy error or the error itself
ExecThrow(e) ==
    /\ execState' = IF isRetryable(e) THEN "FailedTransientExhausted"
                                      ELSE "FailedTerminal"
    /\ lastError' = e
    /\ thrown' = ThrownFor(e)
    /\ inFlight' = inFlight - 1
    /\ UNCHANGED <<maxRetries, initialDelay, retries, delay, result, attempts,
                   waits>>

----------------------------------------------------------------------------
(* The data the collaborators answer with *)

\* the JSON array the text service answers the ideation prompt with: a
\* concept is identified by its conceptTitle, the other fields only feed
\* prompts
AppBatches == { <<"A", "B">> }

\* inlineData.data of a rendered design is a number; 0 is the empty string

\* listing copies: one that respects the requested limits, one that does not
ListingCopies ==
    { [titleLen |-> 140, descLen |-> 1, tagCount |-> 13, maxTagLen |-> 20],
      [titleLen |-> 141, descLen |-> 2, tagCount |-> 14, maxTagLen |-> 21] }

ProductTypes == {"Sweatshirt", "Mug"}

Tokens == {"", "token"}

PublishIds == {"p1", "p2"}

\* what a successful answer of the image service holds: a part with inline
\* image data; no such part (no candidates, no parts, or only text parts);
\* or a candidate without content (a blocked generation)
ImageAnswers == {"image", "noimage", "nocontent"}

\* how the image service answers the mockup prompts of one tuple: an image
\* for every template, for none, for every other one, or freely
AppImageModes == {"even"}

AssetImageModes == {"all", "none", "even"}

ImageChoices(mode, i) ==
    CASE mode = "all"  -> {"image"}
      [] mode = "none" -> {"noimage"}
      [] mode = "even" -> {IF i % 2 = 0 THEN "image" ELSE "noimage"}
      [] OTHER         -> ImageAnswers

Null == <<"null">>

NoOutcome == "none"

Call(kind, tuple, i) == [kind |-> kind, tuple |-> tuple, tmpl |-> i]

Done(kind, tuple, i, image) ==
    [kind |-> kind, tuple |-> tuple, tmpl |-> i, image |-> image]

MockupPrompt_session(pt, i) == [scene |-> i, productType |-> productType]

\* getMockupPrompts(productType, concept, holiday)[i]: scene i of the fixed
\* list, written for the product type it is given
MockupPrompt(pt, i) == [scene |-> i, productType |-> pt]

\* the mockup call of template i of a tuple, with the prompt it sends
MockupCall(tuple, i, pt) ==
    [kind |-> "mockup", tuple |-> tuple, tmpl |-> i,
     prompt |-> MockupPrompt(pt, i)]

\* a pacing timer of ms milliseconds set after call i of a tuple
Pace(tuple, i, ms) == [tuple |-> tuple, tmpl |-> i, ms |-> ms]

\* the listing-copy call of a tuple returned, with the copy it answered
CopyAnswer(tuple, copy) ==
    [kind |-> "copy", tuple |-> tuple, tmpl |-> 0, image |-> FALSE,
     copy |-> copy]

TotalSteps_noCopy == NumTemplates

\* scenePrompts.length + 1
TotalSteps == NumTemplates + 1

\* number of remote calls of tuple t that have returned
DoneIn(log, t) == Cardinality({k \in 1..Len(log) : log[k].tuple = t})

\* onProgress?.(cur, totalSteps), observed with the calls completed so far
Report_countsBatch(plog, dlog, t, cur) ==
    Append(plog, [tuple |-> t, cur |-> cur + t * TotalSteps,
                  total |-> TotalSteps, done |-> DoneIn(dlog, t)])

Report(plog, dlog, t, cur) ==
    Append(plog, [tuple |-> t, cur |-> cur, total |-> TotalSteps,
                  done |-> DoneIn(dlog, t)])

MockupProgress_afterCall(i) == i + 1

\* onProgress?.(i + 2, totalSteps)
MockupProgress(i) == i + 2

----------------------------------------------------------------------------
(* App: what every handler shares *)

CanAct_always == TRUE

\* renderContent: while isLoading only the loader is rendered, so no stage
\* button can be clicked
CanAct == ~isLoading

\* the stage screen s is rendered and not covered by the settings overlay
\* (fixed inset-0, z-50: a click outside its panel only closes it)
Screen(s) == CanAct /\ ~showSettings /\ step = s

\* the frames of the handler that ended are gone
LocalsIdle ==
    /\ pc' = "idle"
    /\ batch' = <<>>
    /\ idx' = 0
    /\ newDesigns' = <<>>
    /\ allFinalAssets' = <<>>
    /\ listingCopy' = NoCopy
    /\ mockupUrls' = <<>>
    /\ tmpl' = 0

\* a user action that starts no flow: the record of the last run is dropped
Forget ==
    /\ ExecIdle
    /\ collabImages' = <<>>
    /\ fetchLog' = <<>>
    /\ paceLog' = <<>>
    /\ callLog' = <<>>
    /\ doneLog' = <<>>
    /\ progressLog' = <<>>
    /\ outcome' = NoOutcome
    /\ UNCHANGED <<flowVars, inFlight, activeFlows>>

\* handleApiError(e), then finally { setIsLoading(false) }
handleApiError(e) == IF e.isError THEN e.message ELSE <<"[object Object]">>

Catch(e) ==
    /\ error' = handleApiError(e)
    /\ isLoading' = FALSE
    /\ LocalsIdle
    /\ ExecIdle
    /\ activeFlows' = activeFlows - 1
    /\ outcome' = "failed"

\* the try block ran to its end; finally { setIsLoading(false) }
Finish ==
    /\ isLoading' = FALSE
    /\ LocalsIdle
    /\ ExecIdle
    /\ activeFlows' = activeFlows - 1
    /\ outcome' = "ok"

\* the handler's first synchronous part: setIsLoading(true); setError(null)
Start ==
    /\ isLoading' = TRUE
    /\ error' = Null
    /\ activeFlows' = activeFlows + 1
    /\ doneLog' = <<>>
    /\ outcome' = NoOutcome

----------------------------------------------------------------------------
(* The remote side of a withRetry call, and the retry loop's own steps *)

RetryBounds == (0..MaxRetriesBound) \cup {DefaultMaxRetries}

Plain(ok, value) == Response(ok, <<>>, -1, NoCopy, value)

\* the collaborators of one specification: the concept batches, design
\* data and listing copies the generative service answers with, the answers
\* without an image it gives to a render, and the errors it fails with
Collaborators(batches, data, blanks, copies, failures) ==
    [batches |-> batches, data |-> data, blanks |-> blanks, copies |-> copies,
     failures |-> failures]

\* what the collaborator may answer the call in flight with; not ok: the
\* answer lacks what the stage looks for (JSON text, an inline image)
Responses(c) ==
    CASE pc = "ideation" ->
            {Response(TRUE, b, -1, NoCopy, "json") : b \in c.batches}
            \cup {Plain(FALSE, "text")}
      [] pc = "design" ->
            {Response(TRUE, <<>>, d, NoCopy, "image") : d \in c.data}
            \cup {Plain(FALSE, v) : v \in c.blanks}
      [] pc = "gfa.copy" ->
            {Response(TRUE, <<>>, -1, lc, "json") : lc \in c.copies}
            \cup {Plain(FALSE, "text")}
      [] pc = "gfa.mockup" ->
            {Plain(v = "image", v) :
                v \in ImageChoices(collabImages[idx + 1], tmpl)}
      [] OTHER ->
            {Plain(TRUE, v) : v \in {"r1", "r2"}}

\* apiCall() resolves: withRetry returns its value
AttemptReturns(c) ==
    /\ execState = "Attempting"
    /\ \E r \in Responses(c) : ExecReturn(r)
    /\ UNCHANGED <<appVars, flowVars, obsVars, activeFlows>>

\* apiCall() rejects: the catch block classifies the error
AttemptFails(c) ==
    /\ execState = "Attempting"
    /\ \E e \in c.failures :
          IF ShouldRetry(e, retries, maxRetries)
             THEN ExecBackoff(e)
             ELSE ExecThrow(e)
    /\ UNCHANGED <<appVars, flowVars, obsVars, activeFlows>>

BackoffFires_neverFires ==
    /\ execState = "Waiting"
    /\ UNCHANGED vars

\* the backoff timer fires: delay *= 2, and the loop attempts again
BackoffFires ==
    /\ execState = "Waiting"
    /\ delay' = NextDelay(delay)
    /\ execState' = "Attempting"
    /\ attempts' = attempts + 1
    /\ lastError' = NoError
    /\ inFlight' = inFlight + 1
    /\ UNCHANGED <<maxRetries, initialDelay, retries, thrown, result, waits>>
    /\ UNCHANGED <<appVars, flowVars, obsVars, activeFlows>>

\* a caller of withRetry outside the application: any bound, any delay
DriverCall ==
    /\ pc = "driver"
    /\ execState \notin {"Attempting", "Waiting"}
    /\ \E m \in RetryBounds, d \in InitialDelays : ExecBegin(m, d)
    /\ UNCHANGED <<appVars, flowVars, obsVars, activeFlows>>

Failed == {"FailedTransientExhausted", "FailedTerminal"}

FlowCatches_keepsRendered ==
    /\ pc \in {"ideation", "design", "gfa.copy", "gfa.mockup"}
    /\ execState \in Failed
    /\ generatedDesigns' = IF pc = "design" THEN newDesigns
                                            ELSE generatedDesigns
    /\ Catch(thrown)
    /\ UNCHANGED <<step, showSettings, printifyToken, productType, variations,
                   selectedVariations, selectedDesigns, finalizedProducts>>
    /\ UNCHANGED <<collabImages, fetchLog, paceLog, callLog, doneLog,
                   progressLog, inFlight>>

FlowCatches_returnsPartial ==
    /\ pc \in {"ideation", "design", "gfa.copy", "gfa.mockup"}
    /\ execState \in Failed
    /\ IF pc = "gfa.mockup" /\ mockupUrls # <<>>
          THEN /\ finalizedProducts' =
                     Append(allFinalAssets,
                            [concept |-> batch[idx + 1].concept,
                             designUrl |-> batch[idx + 1].url,
                             mockups |-> mockupUrls,
                             listingCopy |-> listingCopy,
                             productType |-> batch[idx + 1].productType,
                             printifyId |-> ""])
               /\ step' = "FINALIZE"
               /\ Finish
               /\ UNCHANGED error
          ELSE /\ Catch(thrown)
               /\ UNCHANGED <<step, finalizedProducts>>
    /\ UNCHANGED <<showSettings, printifyToken, productType, variations,
                   selectedVariations, generatedDesigns, selectedDesigns>>
    /\ UNCHANGED <<collabImages, fetchLog, paceLog, callLog, doneLog,
                   progressLog, inFlight>>

\* withRetry threw: the stage rethrows, the handler's catch takes it
FlowCatches ==
    /\ pc \in {"ideation", "design", "gfa.copy", "gfa.mockup"}
    /\ execState \in Failed
    /\ Catch(thrown)
    /\ UNCHANGED <<step, showSettings, printifyToken, productType, variations,
                   selectedVariations, generatedDesigns, selectedDesigns,
                   finalizedProducts>>
    /\ UNCHANGED <<collabImages, fetchLog, paceLog, callLog, doneLog,
                   progressLog, inFlight>>

----------------------------------------------------------------------------
(* Settings and configuration *)

OpenSettings ==
    /\ ~showSettings
    /\ showSettings' = TRUE
    /\ UNCHANGED <<step, isLoading, error, printifyToken, productType,
                   variations, selectedVariations, generatedDesigns,
                   selectedDesigns, finalizedProducts>>
    /\ UNCHANGED <<flowVars, execVars, obsVars, inFlight, activeFlows>>

CloseSettings ==
    /\ showSettings
    /\ showSettings' = FALSE
    /\ UNCHANGED <<step, isLoading, error, printifyToken, productType,
                   variations, selectedVariations, generatedDesigns,
                   selectedDesigns, finalizedProducts>>
    /\ UNCHANGED <<flowVars, execVars, obsVars, inFlight, activeFlows>>

SetToken(t) ==
    /\ showSettings
    /\ printifyToken' = t
    /\ UNCHANGED <<step, isLoading, error, showSettings, productType,
                   variations, selectedVariations, generatedDesigns,
                   selectedDesigns, finalizedProducts>>
    /\ UNCHANGED <<flowVars, execVars, obsVars, inFlight, activeFlows>>

SetProductType(pt) ==
    /\ Screen("CONFIG")
    /\ productType' = pt
    /\ Forget
    /\ UNCHANGED <<step, isLoading, error, showSettings, printifyToken,
                   variations, selectedVariations, generatedDesigns,
                   selectedDesigns, finalizedProducts>>

----------------------------------------------------------------------------
(* Ideation: handleForgeConcepts / generateIdeationPackage *)

ForgeConcepts ==
    /\ Screen("CONFIG")
    /\ Start
    /\ pc' = "ideation"
    /\ ExecBegin(DefaultMaxRetries, DefaultInitialDelay)
    /\ callLog' = <<Call("ideation", 0, 0)>>
    /\ progressLog' = <<>>
    /\ collabImages' = <<>>
    /\ fetchLog' = <<>>
    /\ paceLog' = <<>>
    /\ UNCHANGED <<step, showSettings, printifyToken, productType, variations,
                   selectedVariations, generatedDesigns, selectedDesigns,
                   finalizedProducts>>
    /\ UNCHANGED <<batch, idx, newDesigns, allFinalAssets, listingCopy,
                   mockupUrls, tmpl>>

IdeationDone ==
    /\ pc = "ideation"
    /\ execState = "Succeeded"
    /\ doneLog' = Append(doneLog, Done("ideation", 0, 0, FALSE))
    /\ IF result.ok
          THEN /\ variations' = result.concepts
               /\ selectedVariations' = <<>>
               /\ step' = "IDEATION"
               /\ Finish
               /\ UNCHANGED error
          ELSE /\ Catch(MkError(<<"SyntaxError">>))
               /\ UNCHANGED <<variations, selectedVariations, step>>
    /\ UNCHANGED <<showSettings, printifyToken, productType, generatedDesigns,
                   selectedDesigns, finalizedProducts>>
    /\ UNCHANGED <<collabImages, fetchLog, paceLog, callLog, progressLog,
                   inFlight>>

Without(sel, c) == SelectSeq(sel, LAMBDA x : x # c)

ToggleConcept_addsAgain(prev, c) ==
    IF Len(prev) > 0 /\ prev[Len(prev)] = c THEN Without(prev, c)
                                             ELSE Append(prev, c)

\* prev.some(same title) ? prev.filter(other titles) : [...prev, concept]
ToggleConcept(prev, c) ==
    IF \E i \in 1..Len(prev) : prev[i] = c THEN Without(prev, c)
                                           ELSE Append(prev, c)

ToggleVariation(k) ==
    /\ Screen("IDEATION")
    /\ k \in 1..Len(variations)
    /\ selectedVariations' = ToggleConcept(selectedVariations, variations[k])
    /\ Forget
    /\ UNCHANGED <<step, isLoading, error, showSettings, printifyToken,
                   productType, variations, generatedDesigns, selectedDesigns,
                   finalizedProducts>>

----------------------------------------------------------------------------
(* Design rendering: handleForgeDesigns / generateDesign *)

ForgeDesigns ==
    /\ Screen("IDEATION")
    /\ Len(selectedVariations) # 0
    /\ Start
    /\ generatedDesigns' = <<>>
    /\ selectedDesigns' = <<>>
    /\ newDesigns' = <<>>
    /\ batch' = selectedVariations
    /\ idx' = 0
    /\ pc' = "design"
    /\ ExecBegin(DefaultMaxRetries, DefaultInitialDelay)
    /\ callLog' = <<Call("design", 0, 0)>>
    /\ progressLog' = <<>>
    /\ collabImages' = <<>>
    /\ fetchLog' = <<>>
    /\ paceLog' = <<>>
    /\ UNCHANGED <<step, showSettings, printifyToken, productType, variations,
                   selectedVariations, finalizedProducts>>
    /\ UNCHANGED <<allFinalAssets, listingCopy, mockupUrls, tmpl>>

DesignNeedsPacing_never(i, n) == FALSE

\* a pacing delay follows every render but the last
DesignNeedsPacing(i, n) == i < n - 1

DesignDone ==
    /\ pc = "design"
    /\ execState = "Succeeded"
    /\ doneLog' = Append(doneLog, Done("design", idx, 0, result.ok))
    /\ IF ~HasParts(result)
          THEN /\ Catch(NoContentError)
               /\ UNCHANGED <<generatedDesigns, step, paceLog,
                              callLog, inFlight>>
          ELSE IF ~result.ok
          THEN /\ Catch(MkError(<<"No image was generated.">>))
               /\ UNCHANGED <<generatedDesigns, step, paceLog,
                              callLog, inFlight>>
          ELSE LET nd == (batch[idx + 1] :> result.data) @@ newDesigns IN
               IF DesignNeedsPacing(idx, Len(batch))
                  THEN /\ newDesigns' = nd
                       /\ paceLog' = Append(paceLog, Pace(idx, 0, PacingDelay))
                       /\ pc' = "design.pace"
                       /\ ExecIdle
                       /\ UNCHANGED <<generatedDesigns, step, error, isLoading,
                                      batch, idx, allFinalAssets, listingCopy,
                                      mockupUrls, tmpl, activeFlows, outcome,
                                      callLog, inFlight>>
                  ELSE IF idx + 1 < Len(batch)
                  THEN /\ newDesigns' = nd
                       /\ idx' = idx + 1
                       /\ callLog' = Append(callLog, Call("design", idx + 1, 0))
                       /\ ExecBegin(DefaultMaxRetries, DefaultInitialDelay)
                       /\ UNCHANGED <<generatedDesigns, step, error, isLoading,
                                      batch, allFinalAssets, listingCopy,
                                      mockupUrls, tmpl, activeFlows, outcome,
                                      paceLog, pc>>
                  ELSE /\ generatedDesigns' = nd
                       /\ step' = "DESIGN"
                       /\ Finish
                       /\ UNCHANGED <<error, paceLog, callLog, inFlight>>
    /\ UNCHANGED <<showSettings, printifyToken, productType, variations,
                   selectedVariations, selectedDesigns, finalizedProducts>>
    /\ UNCHANGED <<collabImages, fetchLog, progressLog>>

DesignPaceFires_neverFires ==
    /\ pc = "design.pace"
    /\ UNCHANGED vars

\* the 1500 ms pacing timer between two renders fires
DesignPaceFires ==
    /\ pc = "design.pace"
    /\ idx' = idx + 1
    /\ pc' = "design"
    /\ ExecBegin(DefaultMaxRetries, DefaultInitialDelay)
    /\ callLog' = Append(callLog, Call("design", idx + 1, 0))
    /\ UNCHANGED appVars
    /\ UNCHANGED <<batch, newDesigns, allFinalAssets, listingCopy, mockupUrls,
                   tmpl>>
    /\ UNCHANGED <<collabImages, fetchLog, paceLog, doneLog, progressLog,
                   outcome,
                   activeFlows>>

----------------------------------------------------------------------------
(* Design selection: renderDesign shows one card per variation that has a  *)
(* rendered design                                                         *)

HasCard(k) == k \in 1..Len(variations) /\ variations[k] \in DOMAIN generatedDesigns

CardUrl(k) == generatedDesigns[variations[k]]

Selected(sel, url) == \E i \in 1..Len(sel) : sel[i].url = url

\* selectedDesigns.find(d => d.url === url)?.productType || productType
CurrentProductType(sel, url) ==
    IF Selected(sel, url)
       THEN sel[CHOOSE i \in 1..Len(sel) :
                   /\ sel[i].url = url
                   /\ \A j \in 1..(i - 1) : sel[j].url # url].productType
       ELSE productType

DesignItem(c, url, pt) == [concept |-> c, url |-> url, productType |-> pt]

\* prev.some(same url) ? prev.filter(other urls) : [...prev, item]
ToggleDesign(prev, c, url, pt) ==
    IF Selected(prev, url)
       THEN SelectSeq(prev, LAMBDA d : d.url # url)
       ELSE Append(prev, DesignItem(c, url, pt))

ToggleDesignSelection(k) ==
    /\ Screen("DESIGN")
    /\ HasCard(k)
    /\ selectedDesigns' =
          ToggleDesign(selectedDesigns, variations[k], CardUrl(k), productType)
    /\ Forget
    /\ UNCHANGED <<step, isLoading, error, showSettings, printifyToken,
                   productType, variations, selectedVariations,
                   generatedDesigns, finalizedProducts>>

ChangeProductType_all(prev, url, pt) ==
    [i \in 1..Len(prev) |-> [prev[i] EXCEPT !.productType = pt]]

\* prev.map(d => d.url === url ? { ...d, productType: pt } : d)
ChangeProductType(prev, url, pt) ==
    [i \in 1..Len(prev) |->
        IF prev[i].url = url THEN [prev[i] EXCEPT !.productType = pt]
                             ELSE prev[i]]

ProductTypeChangeForDesign(k, pt) ==
    /\ Screen("DESIGN")
    /\ HasCard(k)
    /\ selectedDesigns' = ChangeProductType(selectedDesigns, CardUrl(k), pt)
    /\ Forget
    /\ UNCHANGED <<step, isLoading, error, showSettings, printifyToken,
                   productType, variations, selectedVariations,
                   generatedDesigns, finalizedProducts>>

----------------------------------------------------------------------------
(* Finalization: handleForgeAssets / generateFinalAssets *)

\* base64ToPart: the data part after the comma must not be empty
ValidDataUrl(url) == url # 0

\* mockupUrls.push(`data:image/jpeg;base64,${bytes}`): the render of template i
PushMockup(urls, i) == Append(urls, i)

\* if (mockupUrls.length === 0) throw
NoMockups(urls) == Len(urls) = 0

Product(design, mockups, copy) ==
    [concept |-> design.concept, designUrl |-> design.url,
     mockups |-> mockups, listingCopy |-> copy,
     productType |-> design.productType, printifyId |-> ""]

FreshBatch_keep(prev) == prev

\* setFinalizedProducts([]): start fresh for this batch
FreshBatch(prev) == <<>>

\* handleForgeAssets up to the first await of the first generateFinalAssets
BeginAssets(designs, modes) ==
    /\ Len(designs) # 0
    /\ Start
    /\ finalizedProducts' = FreshBatch(finalizedProducts)
    /\ allFinalAssets' = <<>>
    /\ batch' = designs
    /\ idx' = 0
    /\ \E plan \in [1..Len(designs) -> modes] : collabImages' = plan
    /\ fetchLog' = <<>>
    /\ paceLog' = <<>>
    /\ progressLog' = Report(<<>>, <<>>, 0, 0)
    /\ callLog' = <<Call("copy", 0, 0)>>
    /\ pc' = "gfa.copy"
    /\ ExecBegin(DefaultMaxRetries, DefaultInitialDelay)
    /\ listingCopy' = NoCopy
    /\ mockupUrls' = <<>>
    /\ tmpl' = 0
    /\ newDesigns' = <<>>
    /\ UNCHANGED <<step, showSettings, printifyToken, productType, variations,
                   selectedVariations, generatedDesigns, selectedDesigns>>

\* the card's own "Generate Assets" button
ForgeAssetsSingle(k, modes) ==
    /\ Screen("DESIGN")
    /\ HasCard(k)
    /\ BeginAssets(<<DesignItem(variations[k], CardUrl(k),
                                CurrentProductType(selectedDesigns, CardUrl(k)))>>,
                   modes)

\* "Generate Assets for n Selected Designs"
ForgeAssetsAll(modes) ==
    /\ Screen("DESIGN")
    /\ BeginAssets(selectedDesigns, modes)

\* generateListingCopy returned: onProgress(1), base64ToPart, then the first
\* template: onProgress(2) and its call
CopyDone ==
    /\ pc = "gfa.copy"
    /\ execState = "Succeeded"
    /\ LET dl == Append(doneLog, CopyAnswer(idx, result.copy)) IN
       /\ doneLog' = dl
       /\ IF ~result.ok
             THEN /\ Catch(MkError(<<"SyntaxError">>))
                  /\ UNCHANGED <<progressLog, callLog, inFlight>>
             ELSE IF ~ValidDataUrl(batch[idx + 1].url)
             THEN /\ progressLog' = Report(progressLog, dl, idx, 1)
                  /\ Catch(MkError(<<"Invalid base64 data URL format.">>))
                  /\ UNCHANGED <<callLog, inFlight>>
             ELSE /\ listingCopy' = result.copy
                  /\ mockupUrls' = <<>>
                  /\ tmpl' = 0
                  /\ progressLog' = Report(Report(progressLog, dl, idx, 1),
                                           dl, idx, MockupProgress(0))
                  /\ callLog' = Append(callLog,
                                      MockupCall(idx, 0,
                                                 batch[idx + 1].productType))
                  /\ pc' = "gfa.mockup"
                  /\ ExecBegin(DefaultMaxRetries, DefaultInitialDelay)
                  /\ UNCHANGED <<batch, idx, newDesigns, allFinalAssets,
                                 isLoading, error, activeFlows, outcome>>
    /\ UNCHANGED <<step, showSettings, printifyToken, productType, variations,
                   selectedVariations, generatedDesigns, selectedDesigns,
                   finalizedProducts, collabImages, fetchLog, paceLog>>

NextTuple_same(i) == i

\* for (let i = 0; i < designsToProcess.length; i++)
NextTuple(i) == i + 1

NeedsPacing_never(i) == FALSE

\* if (i < scenePrompts.length - 1)
NeedsPacing(i) == i < NumTemplates - 1

\* the call of template tmpl returned: extract the image, then pace (or go
\* on with the loop), or end this tuple and go on to the next, or end the
\* batch
MockupDone ==
    /\ pc = "gfa.mockup"
    /\ execState = "Succeeded"
    /\ LET dl   == Append(doneLog, Done("mockup", idx, tmpl, result.ok))
           urls == IF result.ok THEN PushMockup(mockupUrls, tmpl)
                                ELSE mockupUrls
           all  == Append(allFinalAssets,
                          Product(batch[idx + 1], urls, listingCopy))
       IN
       /\ doneLog' = dl
       /\ IF ~HasParts(result)
             THEN /\ Catch(NoContentError)
                  /\ UNCHANGED <<step, finalizedProducts, progressLog, callLog,
                                 inFlight, paceLog>>
             ELSE IF NeedsPacing(tmpl)
             THEN /\ mockupUrls' = urls
                  /\ paceLog' = Append(paceLog, Pace(idx, tmpl, PacingDelay))
                  /\ pc' = "gfa.pace"
                  /\ ExecIdle
                  /\ UNCHANGED <<batch, idx, newDesigns, allFinalAssets,
                                 listingCopy, tmpl, isLoading, error, step,
                                 finalizedProducts, activeFlows, outcome,
                                 progressLog, callLog, inFlight>>
             ELSE IF tmpl + 1 < NumTemplates
             THEN /\ mockupUrls' = urls
                  /\ tmpl' = tmpl + 1
                  /\ progressLog' =
                        Report(progressLog, dl, idx, MockupProgress(tmpl + 1))
                  /\ callLog' =
                        Append(callLog,
                               MockupCall(idx, tmpl + 1,
                                          batch[idx + 1].productType))
                  /\ ExecBegin(DefaultMaxRetries, DefaultInitialDelay)
                  /\ UNCHANGED <<pc, batch, idx, newDesigns, allFinalAssets,
                                 listingCopy, isLoading, error, step,
                                 finalizedProducts, activeFlows, outcome,
                                 paceLog>>
             ELSE IF NoMockups(urls)
             THEN /\ Catch(MkError(<<"No mockups were generated.">>))
                  /\ UNCHANGED <<step, finalizedProducts, progressLog, callLog,
                                 inFlight, paceLog>>
             ELSE IF idx < Len(batch) - 1
             THEN /\ allFinalAssets' = all
                  /\ UNCHANGED paceLog
                  /\ idx' = NextTuple(idx)
                  /\ listingCopy' = NoCopy
                  /\ mockupUrls' = <<>>
                  /\ tmpl' = 0
                  /\ progressLog' = Report(progressLog, dl, NextTuple(idx), 0)
                  /\ callLog' = Append(callLog, Call("copy", NextTuple(idx), 0))
                  /\ pc' = "gfa.copy"
                  /\ ExecBegin(DefaultMaxRetries, DefaultInitialDelay)
                  /\ UNCHANGED <<batch, newDesigns, isLoading, error, step,
                                 finalizedProducts, activeFlows, outcome>>
             ELSE /\ finalizedProducts' = all
                  /\ step' = "FINALIZE"
                  /\ Finish
                  /\ UNCHANGED <<error, progressLog, callLog, inFlight,
                                 paceLog>>
    /\ UNCHANGED <<showSettings, printifyToken, productType, variations,
                   selectedVariations, generatedDesigns, selectedDesigns,
                   collabImages, fetchLog>>

\* the 1500 ms pacing timer between two templates fires: i++, onProgress(i + 2)
\* and the next template's call
MockupPaceFires ==
    /\ pc = "gfa.pace"
    /\ tmpl' = tmpl + 1
    /\ progressLog' = Report(progressLog, doneLog, idx, MockupProgress(tmpl + 1))
    /\ callLog' = Append(callLog, MockupCall(idx, tmpl + 1,
                                             batch[idx + 1].productType))
    /\ pc' = "gfa.mockup"
    /\ ExecBegin(DefaultMaxRetries, DefaultInitialDelay)
    /\ UNCHANGED appVars
    /\ UNCHANGED <<batch, idx, newDesigns, allFinalAssets, listingCopy,
                   mockupUrls>>
    /\ UNCHANGED <<collabImages, fetchLog, paceLog, doneLog, outcome,
                   activeFlows>>

----------------------------------------------------------------------------
(* Publish: handlePrintifyPublish and the three fetch calls of             *)
(* printifyService.  Each step below is one fetch settling, with the code  *)
(* up to the next fetch.  None of the three is wrapped in withRetry.       *)

\* the statuses the commerce service answers with
HttpStatuses == {200, 401, 429, 503}

\* what a fetch settles with: the status of the response (0: fetch itself
\* rejected, there is no response) and whether its body parses as JSON
FetchAnswer(st, json) == [status |-> st, json |-> json]

FetchOutcomes ==
    {FetchAnswer(st, j) : st \in HttpStatuses, j \in BOOLEAN}
    \cup {FetchAnswer(0, FALSE)}

\* response.ok
Ok(o) == o.status \in 200..299

\* fetch itself rejected (no HTTP response at all)
NetworkError == MkError(<<"Failed to fetch">>)

\* response.json() on a body that is not JSON
JsonError == MkError(<<"SyntaxError">>)

\* JSON.stringify(error) of the parsed error body
Payload == "payload"

\* the fetch of a publish call settled: its kind and answer are recorded
Fetched(log, kind, o) ==
    Append(log, [kind |-> kind, status |-> o.status, json |-> o.json])

\* the fetch of getPrintifyShop settled, with the number of shops its body
\* lists
ShopsFetched(log, o, shops) ==
    Append(log, [kind |-> "shop", status |-> o.status, json |-> o.json,
                 shops |-> shops])

ShopError_anyShops(o, shops) ==
    CASE o.status = 0 -> NetworkError
      [] ~Ok(o)       ->
            MkError(<<"Failed to fetch Printify shops. Check your API Token.">>)
      [] ~o.json      -> JsonError
      [] OTHER        -> NoError

\* getPrintifyShop: the error it throws, NoError when it returns shops[0]
ShopError(o, shops) ==
    CASE o.status = 0 -> NetworkError
      [] ~Ok(o)       ->
            MkError(<<"Failed to fetch Printify shops. Check your API Token.">>)
      [] ~o.json      -> JsonError
      [] shops = 0    -> MkError(<<"No Printify shops found for this account.">>)
      [] OTHER        -> NoError

\* uploadImageToPrintify: the error it throws, NoError when it returns data.id
UploadError(o) ==
    CASE o.status = 0 -> NetworkError
      [] ~o.json      -> JsonError
      [] ~Ok(o)       -> MkError(<<"Image upload failed:", Payload>>)
      [] OTHER        -> NoError

\* createPrintifyProduct: the error it throws, NoError when it returns the
\* created product
CreateError_never(o) == NoError

CreateError(o) ==
    CASE o.status = 0 -> NetworkError
      [] ~o.json      -> JsonError
      [] ~Ok(o)       -> MkError(<<"Product creation failed:", Payload>>)
      [] OTHER        -> NoError

\* the catalog entries of the product types: blueprint and print provider
PRODUCT_MAP ==
    [pt \in ProductTypes |->
        IF pt = "Sweatshirt"
           THEN [blueprint_id |-> 53, print_provider_id |-> 29]
           ELSE [blueprint_id |-> 68, print_provider_id |-> 23]]

CreatePayload_clamped(pt, copy) ==
    [title |-> IF copy.titleLen > 140 THEN 140 ELSE copy.titleLen,
     description |-> copy.descLen,
     blueprint_id |-> PRODUCT_MAP[pt].blueprint_id,
     print_provider_id |-> PRODUCT_MAP[pt].print_provider_id,
     tags |-> [count  |-> IF copy.tagCount > 13 THEN 13 ELSE copy.tagCount,
               maxLen |-> IF copy.maxTagLen > 20 THEN 20
                                                 ELSE copy.maxTagLen]]

\* the body createPrintifyProduct posts: title, description and tags of the
\* listing copy, and the blueprint of the product type
CreatePayload(pt, copy) ==
    [title |-> copy.titleLen,
     description |-> copy.descLen,
     blueprint_id |-> PRODUCT_MAP[pt].blueprint_id,
     print_provider_id |-> PRODUCT_MAP[pt].print_provider_id,
     tags |-> [count |-> copy.tagCount, maxLen |-> copy.maxTagLen]]

\* the create-product call, with the body it posts
CreateCall(payload) ==
    [kind |-> "create", tuple |-> 0, tmpl |-> 0, payload |-> payload]

AttachId_all(products, title, id) ==
    [i \in 1..Len(products) |-> [products[i] EXCEPT !.printifyId = id]]

\* prev.map(p => same title ? { ...p, printifyId } : p)
AttachId(products, title, id) ==
    [i \in 1..Len(products) |->
        IF products[i].concept = title
           THEN [products[i] EXCEPT !.printifyId = id]
           ELSE products[i]]

PublishDisabled_never(product) == FALSE

\* disabled={!!product.printifyId}
PublishDisabled(product) == product.printifyId # ""

\* "Send to Printify" on product k
NoToken_never(token) == FALSE

\* if (!printifyToken)
NoToken(token) == token = ""

PrintifyPublish(k) ==
    /\ Screen("FINALIZE")
    /\ k \in 1..Len(finalizedProducts)
    /\ ~PublishDisabled(finalizedProducts[k])
    /\ IF NoToken(printifyToken)
          THEN /\ showSettings' = TRUE
               /\ Forget
               /\ UNCHANGED <<isLoading, error>>
          ELSE /\ Start
               /\ batch' = <<finalizedProducts[k]>>
               /\ pc' = "pub.shop"
               /\ inFlight' = inFlight + 1
               /\ callLog' = <<Call("shop", 0, 0)>>
               /\ progressLog' = <<>>
               /\ collabImages' = <<>>
               /\ fetchLog' = <<>>
               /\ paceLog' = <<>>
               /\ ExecIdle
               /\ UNCHANGED <<showSettings, idx, newDesigns, allFinalAssets,
                              listingCopy, mockupUrls, tmpl>>
    /\ UNCHANGED <<step, printifyToken, productType, variations,
                   selectedVariations, generatedDesigns, selectedDesigns,
                   finalizedProducts>>

\* getPrintifyShop settles
ShopDone ==
    /\ pc = "pub.shop"
    /\ \E o \in FetchOutcomes, shops \in {0, 1} :
          /\ fetchLog' = ShopsFetched(fetchLog, o, shops)
          /\ IF ShopError(o, shops) = NoError
                THEN /\ doneLog' = Append(doneLog, Done("shop", 0, 0, FALSE))
                     /\ callLog' = Append(callLog, Call("upload", 0, 0))
                     /\ pc' = "pub.upload"
                     /\ UNCHANGED execVars
                     /\ UNCHANGED <<inFlight, isLoading, error, batch, idx,
                                    newDesigns, allFinalAssets, listingCopy,
                                    mockupUrls, tmpl, activeFlows, outcome>>
                ELSE /\ Catch(ShopError(o, shops))
                     /\ inFlight' = inFlight - 1
                     /\ UNCHANGED <<doneLog, callLog>>
    /\ UNCHANGED <<step, showSettings, printifyToken, productType, variations,
                   selectedVariations, generatedDesigns, selectedDesigns,
                   finalizedProducts>>
    /\ UNCHANGED <<collabImages, paceLog, progressLog>>

\* uploadImageToPrintify settles
UploadDone ==
    /\ pc = "pub.upload"
    /\ \E o \in FetchOutcomes :
          /\ fetchLog' = Fetched(fetchLog, "upload", o)
          /\ IF UploadError(o) = NoError
                THEN /\ doneLog' = Append(doneLog, Done("upload", 0, 0, FALSE))
                     /\ callLog' =
                           Append(callLog,
                                  CreateCall(CreatePayload(batch[1].productType,
                                                           batch[1].listingCopy)))
                     /\ pc' = "pub.create"
                     /\ UNCHANGED execVars
                     /\ UNCHANGED <<inFlight, isLoading, error, batch, idx,
                                    newDesigns, allFinalAssets, listingCopy,
                                    mockupUrls, tmpl, activeFlows, outcome>>
                ELSE /\ Catch(UploadError(o))
                     /\ inFlight' = inFlight - 1
                     /\ UNCHANGED <<doneLog, callLog>>
    /\ UNCHANGED <<step, showSettings, printifyToken, productType, variations,
                   selectedVariations, generatedDesigns, selectedDesigns,
                   finalizedProducts>>
    /\ UNCHANGED <<collabImages, paceLog, progressLog>>

\* createPrintifyProduct settles
CreateDone ==
    /\ pc = "pub.create"
    /\ \E o \in FetchOutcomes, id \in PublishIds :
          /\ fetchLog' = Fetched(fetchLog, "create", o)
          /\ IF CreateError(o) = NoError
                THEN /\ doneLog' = Append(doneLog, Done("create", 0, 0, FALSE))
                     /\ finalizedProducts' =
                           AttachId(finalizedProducts, batch[1].concept, id)
                     /\ Finish
                     /\ UNCHANGED error
                ELSE /\ Catch(CreateError(o))
                     /\ UNCHANGED <<doneLog, finalizedProducts>>
    /\ inFlight' = inFlight - 1
    /\ UNCHANGED <<step, showSettings, printifyToken, productType, variations,
                   selectedVariations, generatedDesigns, selectedDesigns>>
    /\ UNCHANGED <<collabImages, paceLog, callLog, progressLog>>

----------------------------------------------------------------------------
(* Download, back, reset *)

\* generateZip(products) up to zip.generateAsync
DownloadZip ==
    /\ Screen("FINALIZE")
    /\ IF Len(finalizedProducts) = 0
          THEN /\ error' = <<"Missing assets to generate a package.">>
               /\ Forget
               /\ UNCHANGED isLoading
          ELSE /\ isLoading' = TRUE
               /\ pc' = "zip"
               /\ activeFlows' = activeFlows + 1
               /\ ExecIdle
               /\ collabImages' = <<>>
               /\ fetchLog' = <<>>
               /\ paceLog' = <<>>
               /\ callLog' = <<>>
               /\ doneLog' = <<>>
               /\ progressLog' = <<>>
               /\ outcome' = NoOutcome
               /\ UNCHANGED <<error, batch, idx, newDesigns, allFinalAssets,
                              listingCopy, mockupUrls, tmpl, inFlight>>
    /\ UNCHANGED <<step, showSettings, printifyToken, productType, variations,
                   selectedVariations, generatedDesigns, selectedDesigns,
                   finalizedProducts>>

\* zip.generateAsync settles
ZipDone ==
    /\ pc = "zip"
    /\ \E ok \in BOOLEAN :
          /\ error' = IF ok THEN error ELSE <<"Failed to create zip file.">>
          /\ outcome' = IF ok THEN "ok" ELSE "failed"
    /\ isLoading' = FALSE
    /\ LocalsIdle
    /\ activeFlows' = activeFlows - 1
    /\ UNCHANGED <<step, showSettings, printifyToken, productType, variations,
                   selectedVariations, generatedDesigns, selectedDesigns,
                   finalizedProducts>>
    /\ UNCHANGED <<execVars, collabImages, fetchLog, paceLog, callLog, doneLog,
                   progressLog, inFlight>>

\* "Back to Designs"
BackToDesigns ==
    /\ Screen("FINALIZE")
    /\ step' = "DESIGN"
    /\ Forget
    /\ UNCHANGED <<isLoading, error, showSettings, printifyToken, productType,
                   variations, selectedVariations, generatedDesigns,
                   selectedDesigns, finalizedProducts>>

resetProcess_keepsStep ==
    /\ Screen("FINALIZE")
    /\ step' = step
    /\ variations' = <<>>
    /\ selectedVariations' = <<>>
    /\ generatedDesigns' = <<>>
    /\ selectedDesigns' = <<>>
    /\ finalizedProducts' = <<>>
    /\ error' = Null
    /\ isLoading' = FALSE
    /\ Forget
    /\ UNCHANGED <<showSettings, printifyToken, productType>>

resetProcess ==
    /\ Screen("FINALIZE")
    /\ step' = "CONFIG"
    /\ variations' = <<>>
    /\ selectedVariations' = <<>>
    /\ generatedDesigns' = <<>>
    /\ selectedDesigns' = <<>>
    /\ finalizedProducts' = <<>>
    /\ error' = Null
    /\ isLoading' = FALSE
    /\ Forget
    /\ UNCHANGED <<showSettings, printifyToken, productType>>

----------------------------------------------------------------------------
(* Specifications *)

InitApp ==
    /\ step = "CONFIG"
    /\ isLoading = FALSE
    /\ error = Null
    /\ showSettings = FALSE
    /\ printifyToken = ""
    /\ productType = "Sweatshirt"
    /\ variations = <<>>
    /\ selectedVariations = <<>>
    /\ generatedDesigns = <<>>
    /\ selectedDesigns = <<>>
    /\ finalizedProducts = <<>>

InitIdle ==
    /\ batch = <<>>
    /\ idx = 0
    /\ newDesigns = <<>>
    /\ allFinalAssets = <<>>
    /\ listingCopy = NoCopy
    /\ mockupUrls = <<>>
    /\ tmpl = 0
    /\ maxRetries = DefaultMaxRetries
    /\ initialDelay = DefaultInitialDelay
    /\ retries = 0
    /\ delay = DefaultInitialDelay
    /\ execState = "Idle"
    /\ lastError = NoError
    /\ thrown = NoError
    /\ result = NoResult
    /\ attempts = 0
    /\ waits = <<>>
    /\ collabImages = <<>>
    /\ fetchLog = <<>>
    /\ paceLog = <<>>
    /\ inFlight = 0
    /\ activeFlows = 0
    /\ callLog = <<>>
    /\ doneLog = <<>>
    /\ progressLog = <<>>
    /\ outcome = NoOutcome

\* the whole application against a service that answers every render with
\* the same image
AppCollaborators ==
    Collaborators(AppBatches, {1}, ImageAnswers \ {"image"}, ListingCopies,
                  AppErrors)

\* withRetry is called with an operation that answers r1 or r2 or fails with
\* any error shape
NoCollaborators == Collaborators({}, {}, {}, {}, ErrorShapes)

\* the application, from its first render
Init == InitApp /\ InitIdle /\ pc = "idle"

Next ==
    \/ OpenSettings
    \/ CloseSettings
    \/ \E t \in Tokens : SetToken(t)
    \/ \E pt \in ProductTypes : SetProductType(pt)
    \/ ForgeConcepts
    \/ IdeationDone
    \/ \E k \in 1..Len(variations) : ToggleVariation(k)
    \/ ForgeDesigns
    \/ DesignDone
    \/ DesignPaceFires
    \/ \E k \in 1..Len(variations) : ToggleDesignSelection(k)
    \/ \E k \in 1..Len(variations), pt \in ProductTypes :
          ProductTypeChangeForDesign(k, pt)
    \/ \E k \in 1..Len(variations) : ForgeAssetsSingle(k, AppImageModes)
    \/ ForgeAssetsAll(AppImageModes)
    \/ CopyDone
    \/ MockupDone
    \/ MockupPaceFires
    \/ \E k \in 1..Len(finalizedProducts) : PrintifyPublish(k)
    \/ ShopDone
    \/ UploadDone
    \/ CreateDone
    \/ DownloadZip
    \/ ZipDone
    \/ BackToDesigns
    \/ resetProcess
    \/ AttemptReturns(AppCollaborators)
    \/ AttemptFails(AppCollaborators)
    \/ BackoffFires
    \/ FlowCatches

Spec == Init /\ [][Next]_vars

----------------------------------------------------------------------------
(* The application when every pending step is eventually taken: attempts   *)
(* settle, timers fire, and the continuation of a settled await runs       *)

\* the steps that are not user actions
Internal(c) ==
    \/ AttemptReturns(c)
    \/ AttemptFails(c)
    \/ BackoffFires
    \/ FlowCatches
    \/ IdeationDone
    \/ DesignDone
    \/ DesignPaceFires
    \/ CopyDone
    \/ MockupDone
    \/ MockupPaceFires
    \/ ShopDone
    \/ UploadDone
    \/ CreateDone

\* a generative service with one listing copy to give
FlowCollaborators ==
    Collaborators(AppBatches, {1}, {"noimage"},
                  {[titleLen |-> 140, descLen |-> 1, tagCount |-> 13,
                    maxTagLen |-> 20]},
                  AppErrors)

\* the four flows and the user actions that lead from one to the next
NextFlows ==
    \/ OpenSettings
    \/ CloseSettings
    \/ \E t \in Tokens : SetToken(t)
    \/ ForgeConcepts
    \/ \E k \in 1..Len(variations) : ToggleVariation(k)
    \/ ForgeDesigns
    \/ \E k \in 1..Len(variations) : ToggleDesignSelection(k)
    \/ ForgeAssetsAll(AppImageModes)
    \/ \E k \in 1..Len(finalizedProducts) : PrintifyPublish(k)
    \/ Internal(FlowCollaborators)

SpecFair ==
    /\ Init
    /\ [][NextFlows]_vars
    /\ WF_vars(Internal(FlowCollaborators))

\* withRetry on its own, called with any bound and any initial delay
InitRetry == InitApp /\ InitIdle /\ pc = "driver"

NextRetry ==
    \/ DriverCall
    \/ AttemptReturns(NoCollaborators)
    \/ AttemptFails(NoCollaborators)
    \/ BackoffFires

SpecRetry == InitRetry /\ [][NextRetry]_vars

\* a wrapped operation that fails with one transient and one terminal error
FairCollaborators == Collaborators({}, {}, {}, {}, AppErrors)

NextRetryFair ==
    \/ DriverCall
    \/ AttemptReturns(FairCollaborators)
    \/ AttemptFails(FairCollaborators)
    \/ BackoffFires

\* withRetry alone, when every apiCall() settles and every setTimeout fires
SpecRetryFair ==
    /\ InitRetry
    /\ [][NextRetryFair]_vars
    /\ WF_vars(AttemptReturns(FairCollaborators)
                  \/ AttemptFails(FairCollaborators))
    /\ WF_vars(BackoffFires)

\* the design screen after two concepts were rendered to two different
\* images (the second one possibly with empty image data)
InitAssets ==
    /\ step = "DESIGN"
    /\ isLoading = FALSE
    /\ error = Null
    /\ showSettings = FALSE
    /\ printifyToken = ""
    /\ productType = "Sweatshirt"
    /\ variations = <<"A", "B">>
    /\ selectedVariations = <<"A", "B">>
    /\ \E d \in {0, 2} : generatedDesigns = ("A" :> 1) @@ ("B" :> d)
    /\ selectedDesigns = <<>>
    /\ finalizedProducts = <<>>
    /\ InitIdle
    /\ pc = "idle"

AssetCollaborators == Collaborators({}, {}, {}, ListingCopies, AssetErrors)

NextAssets ==
    \/ \E k \in 1..Len(variations) : ToggleDesignSelection(k)
    \/ \E k \in 1..Len(variations), pt \in ProductTypes :
          ProductTypeChangeForDesign(k, pt)
    \/ \E k \in 1..Len(variations) : ForgeAssetsSingle(k, AssetImageModes)
    \/ ForgeAssetsAll(AssetImageModes)
    \/ CopyDone
    \/ MockupDone
    \/ MockupPaceFires
    \/ BackToDesigns
    \/ AttemptReturns(AssetCollaborators)
    \/ AttemptFails(AssetCollaborators)
    \/ BackoffFires
    \/ FlowCatches

SpecAssets == InitAssets /\ [][NextAssets]_vars

----------------------------------------------------------------------------
(* The two selection screens: two concepts to choose from, rendered without *)
(* failure to the same or to different images                               *)

InitSelection ==
    /\ step = "IDEATION"
    /\ isLoading = FALSE
    /\ error = Null
    /\ showSettings = FALSE
    /\ printifyToken = ""
    /\ productType \in ProductTypes
    /\ variations = <<"A", "B">>
    /\ selectedVariations = <<>>
    /\ generatedDesigns = <<>>
    /\ selectedDesigns = <<>>
    /\ finalizedProducts = <<>>
    /\ InitIdle
    /\ pc = "idle"

SelectionCollaborators == Collaborators({}, {1, 2}, {}, {}, {})

NextSelection ==
    \/ \E k \in 1..Len(variations) : ToggleVariation(k)
    \/ ForgeDesigns
    \/ DesignDone
    \/ DesignPaceFires
    \/ \E k \in 1..Len(variations) : ToggleDesignSelection(k)
    \/ \E k \in 1..Len(variations), pt \in ProductTypes :
          ProductTypeChangeForDesign(k, pt)
    \/ AttemptReturns(SelectionCollaborators)

SpecSelection == InitSelection /\ [][NextSelection]_vars

\* the design screen after one concept was rendered
InitMockups ==
    /\ step = "DESIGN"
    /\ isLoading = FALSE
    /\ error = Null
    /\ showSettings = FALSE
    /\ printifyToken = ""
    /\ productType = "Sweatshirt"
    /\ variations = <<"A">>
    /\ selectedVariations = <<"A">>
    /\ generatedDesigns = ("A" :> 1)
    /\ selectedDesigns = <<>>
    /\ finalizedProducts = <<>>
    /\ InitIdle
    /\ pc = "idle"

\* a service that never fails and answers each mockup prompt with or
\* without an image, freely
MockupCollaborators == Collaborators({}, {}, {}, ListingCopies, {})

NextMockups ==
    \/ ForgeAssetsSingle(1, {"any"})
    \/ CopyDone
    \/ MockupDone
    \/ MockupPaceFires
    \/ BackToDesigns
    \/ AttemptReturns(MockupCollaborators)

SpecMockups == InitMockups /\ [][NextMockups]_vars

\* a batch of one design finalized with all twelve mockups
AllMockups == [i \in 1..NumTemplates |-> i - 1]

\* the finalize screen after a batch of two designs, of two product types,
\* was forged; no token was entered yet
InitPublish ==
    /\ step = "FINALIZE"
    /\ isLoading = FALSE
    /\ error = Null
    /\ showSettings = FALSE
    /\ printifyToken = ""
    /\ productType = "Sweatshirt"
    /\ variations = <<"A", "B">>
    /\ selectedVariations = <<"A", "B">>
    /\ generatedDesigns = ("A" :> 1) @@ ("B" :> 2)
    /\ selectedDesigns = <<DesignItem("A", 1, "Sweatshirt"),
                           DesignItem("B", 2, "Mug")>>
    /\ \E lc \in [1..2 -> ListingCopies] :
          finalizedProducts =
             [i \in 1..2 |-> Product(selectedDesigns[i], AllMockups, lc[i])]
    /\ InitIdle
    /\ pc = "idle"

\* a generative service that never fails and answers every mockup prompt
\* with an image
PublishCollaborators == Collaborators({}, {}, {}, ListingCopies, {})

NextPublish ==
    \/ OpenSettings
    \/ CloseSettings
    \/ \E t \in Tokens : SetToken(t)
    \/ \E k \in 1..Len(finalizedProducts) : PrintifyPublish(k)
    \/ ShopDone
    \/ UploadDone
    \/ CreateDone
    \/ DownloadZip
    \/ ZipDone
    \/ resetProcess
    \/ BackToDesigns
    \/ \E k \in 1..Len(variations) : ToggleDesignSelection(k)
    \/ \E k \in 1..Len(variations), pt \in ProductTypes :
          ProductTypeChangeForDesign(k, pt)
    \/ \E k \in 1..Len(variations) : ForgeAssetsSingle(k, {"all"})
    \/ ForgeAssetsAll({"all"})
    \/ CopyDone
    \/ MockupDone
    \/ MockupPaceFires
    \/ AttemptReturns(PublishCollaborators)

SpecPublish == InitPublish /\ [][NextPublish]_vars

----------------------------------------------------------------------------
(* Properties of withRetry, over the behaviours of SpecRetry *)

\* C1: within one withRetry call the number of retries (and so of waits)
\* never exceeds maxRetries, the operation is attempted at most
\* maxRetries + 1 times, and a call that gives up on a transient failure
\* has made exactly maxRetries retries; for every maxRetries >= 0.
C1_RetriesBounded ==
    /\ retries <= maxRetries
    /\ Len(waits) <= maxRetries
    /\ attempts <= maxRetries + 1
    /\ execState = "FailedTransientExhausted" =>
          /\ retries = maxRetries
          /\ attempts = maxRetries + 1

\* C1 witness: a call with a bound of at least 2 used all its retries and
\* failed
C1_Witness ==
    /\ execState = "FailedTransientExhausted"
    /\ maxRetries >= 2
    /\ retries = maxRetries

\* C2: a terminal-classified failure is never followed by a wait or another
\* attempt (every wait follows a transient failure, and the call ends with
\* as many waits as attempts before the failing one), and the error thrown
\* is the failure itself, unchanged.
C2_TerminalNotRetried ==
    /\ execState = "Waiting" => isRetryable(lastError)
    /\ execState = "FailedTerminal" =>
          /\ ~isRetryable(lastError)
          /\ thrown = lastError
          /\ Len(waits) = attempts - 1
          /\ inFlight = 0

\* C2 witness: a terminal failure after earlier attempts of the same call
\* failed transiently and were retried
C2_Witness ==
    /\ execState = "FailedTerminal"
    /\ retries >= 2
    /\ thrown = lastError

RECURSIVE Pow2(_)
Pow2(n) == IF n = 0 THEN 1 ELSE 2 * Pow2(n - 1)

\* C3: the wait before the k-th retry of a call is initialDelay * 2^(k-1).
C3_ExponentialBackoff ==
    \A k \in 1..Len(waits) : waits[k] = initialDelay * Pow2(k - 1)

\* C3 witness: a call with the default initial delay that waited five times,
\* the last time for 32000 ms
C3_Witness ==
    /\ Len(waits) = 5
    /\ initialDelay = DefaultInitialDelay
    /\ waits[5] = 32000

\* C4 as stated: the error thrown when the retries are used up carries
\* neither the status code nor the message of the failure it stands for.
C4_HidesStatusAndMessage ==
    execState = "FailedTransientExhausted" =>
        /\ StatusOf(thrown) = 0
        /\ StatusOf(lastError) # 0 =>
              ~Includes(thrown.message, <<StatusText(StatusOf(lastError))>>)
        /\ ~Includes(thrown.message, MessageOf(lastError))

\* C4 amended: the error thrown when the retries are used up is a new Error
\* with the "temporarily busy" text, which names the status code of the last
\* failure ("undefined" when it has none) and does not carry its message;
\* the error object has no status field of its own.
C4_BusyErrorNamesStatus ==
    execState = "FailedTransientExhausted" =>
        /\ thrown.isError
        /\ thrown # lastError
        /\ StatusOf(thrown) = 0
        /\ thrown.message =
              <<"The AI service is temporarily busy (Error",
                StatusText(StatusOf(lastError)),
                "). Please try again shortly.">>
        /\ ~Includes(thrown.message, MessageOf(lastError))

\* C4 witness: retries used up on a failure with status 503
C4_Witness ==
    /\ execState = "FailedTransientExhausted"
    /\ retries >= 1
    /\ StatusOf(lastError) = 503
    /\ Includes(thrown.message, <<"503">>)

\* the status is a rate-limit status or a 5xx-class status
TransientStatus(s) == s = 429 \/ s \in 500..599

\* the status is a 4xx status other than the rate-limit status
ClientStatus(s) == s \in 400..499 /\ s # 429

\* the last attempt of the call failed with this error
Caught(e) == lastError = e /\ e # NoError

\* C14: a failure with status 429, or with a status in 500..599, is
\* classified transient whatever its message is: the call never ends on it
\* as a terminal failure, and gives up on it only when its retries are used
\* up.
C14_StatusDecidesTransient ==
    (Caught(lastError) /\ TransientStatus(StatusOf(lastError))) =>
        /\ execState # "FailedTerminal"
        /\ execState = "FailedTransientExhausted" => retries = maxRetries

\* C15: a failure with a 4xx status other than 429 is terminal whatever its
\* message is: it is never followed by a wait, and the call ends on it by
\* throwing the failure itself, unchanged.
C15_ClientErrorsTerminal ==
    (Caught(lastError) /\ ClientStatus(StatusOf(lastError))) =>
        /\ execState \notin {"Waiting", "FailedTransientExhausted"}
        /\ execState = "FailedTerminal" => thrown = lastError

----------------------------------------------------------------------------
(* Properties of the mockup batch, over SpecMockups: the service never    *)
(* fails a call and answers every mockup prompt freely                     *)

\* the answers to the mockup prompts received so far
MockupAnswers == SelectSeq(doneLog, LAMBDA d : d.kind = "mockup")

\* the templates whose answer held an image
Extracted == {MockupAnswers[k].tmpl : k \in {j \in 1..Len(MockupAnswers) :
                                               MockupAnswers[j].image}}

\* the flow ended after all twelve mockup prompts were answered
BatchAnswered == outcome # NoOutcome /\ Len(MockupAnswers) = NumTemplates

Ascending(seq) == \A i, j \in 1..Len(seq) : i < j => seq[i] < seq[j]

\* C5: when all 12 mockup calls returned and K >= 1 of the answers hold an
\* image, the batch succeeds with exactly those K images, in template order.
C5_ExtractedInTemplateOrder ==
    (BatchAnswered /\ Extracted # {}) =>
        /\ outcome = "ok"
        /\ Len(finalizedProducts) = 1
        /\ LET m == finalizedProducts[1].mockups IN
              /\ Len(m) = Cardinality(Extracted)
              /\ {m[i] : i \in 1..Len(m)} = Extracted
              /\ Ascending(m)

\* C6: when all 12 mockup calls returned, the batch fails with the
\* "no mockups" error if and only if no answer held an image, and any
\* K >= 1 is a success.
C6_NoMockupsIffNone ==
    BatchAnswered =>
        /\ (outcome = "failed" /\ error = <<"No mockups were generated.">>)
              <=> (Extracted = {})
        /\ Extracted # {} => outcome = "ok"

\* C26 as stated: a retry is pending only when fewer attempts than the
\* maximum have been made, and with the default maximum the operation is
\* attempted at most that many times.
C26_AttemptsBelowMaximum ==
    /\ execState = "Waiting" => attempts < maxRetries
    /\ maxRetries = DefaultMaxRetries => attempts <= DefaultMaxRetries

\* C26, amended: a retry is pending only when at most the maximum number of
\* attempts has been made, that is, fewer retries than the maximum before
\* this one; with the default maximum the operation is attempted at most
\* once more than the maximum.
C26_RetriesBelowMaximum ==
    /\ execState = "Waiting" =>
          /\ attempts <= maxRetries
          /\ Len(waits) <= maxRetries
    /\ maxRetries = DefaultMaxRetries => attempts <= DefaultMaxRetries + 1

\* a call with the default maximum is making its sixth attempt, after five
\* waits
C26_Witness ==
    /\ execState = "Attempting"
    /\ maxRetries = 5
    /\ attempts = 6
    /\ Len(waits) = 5

\* C27: the step on which an attempt succeeds, after any number of retried
\* failures, ends the call with a result that is one of the answers the
\* wrapped operation gives to a first attempt and with no error, and
\* changes nothing else of the call; a call that succeeded holds a result
\* and no error.
C27_RetriesNotSurfaced ==
    /\ [][(execState = "Attempting" /\ execState' = "Succeeded") =>
             /\ result' \in Responses(NoCollaborators)
             /\ result'.ok
             /\ thrown' = NoError
             /\ lastError' = NoError
             /\ <<retries', attempts', waits', delay'>> =
                   <<retries, attempts, waits, delay>>]_vars
    /\ [](execState = "Succeeded" =>
            /\ result # NoResult
            /\ thrown = NoError
            /\ Len(waits) = retries
            /\ retries <= maxRetries)

\* a call succeeded on its last allowed attempt, after as many transient
\* failures as its bound of two or more allows
C27_Witness ==
    /\ execState = "Succeeded"
    /\ maxRetries >= 2
    /\ retries = maxRetries
    /\ attempts = maxRetries + 1
    /\ result = Plain(TRUE, "r2")
    /\ thrown = NoError

\* the first element of seq other than the falsy value, or else the default
FirstTruthy(seq, falsy, default) ==
    IF \E i \in 1..Len(seq) : seq[i] # falsy
       THEN seq[CHOOSE i \in 1..Len(seq) :
                   /\ seq[i] # falsy
                   /\ \A j \in 1..(i - 1) : seq[j] = falsy]
       ELSE default

\* the reference classification of an error
RefStatus(e) == FirstTruthy(<<e.status, e.response_status, e.error_code>>, 0, 0)

RefMessage(e) == FirstTruthy(<<e.message, e.error_message>>, <<>>, Serialise(e))

RefContains(msg, marker) ==
    \E i \in 1..Len(msg), j \in 1..Len(msg) : SubSeq(msg, i, j) = marker

RefTransient(e) ==
    \/ RefContains(ToLowerCase(RefMessage(e)), <<"429">>)
    \/ RefContains(ToLowerCase(RefMessage(e)), <<"resource_exhausted">>)
    \/ RefContains(ToLowerCase(RefMessage(e)), <<"quota">>)
    \/ RefContains(ToLowerCase(RefMessage(e)), <<"internal">>)
    \/ RefContains(ToLowerCase(RefMessage(e)), <<"overloaded">>)
    \/ RefContains(ToLowerCase(RefMessage(e)), <<"server", "error">>)
    \/ RefStatus(e) = 500
    \/ RefStatus(e) = 503

\* C28: whatever the shape of the error an attempt fails with, the executor
\* treats it as transient (it waits to retry, or gives up with the busy
\* error when no retry is left) exactly when the reference classification
\* says transient, and as terminal (it throws the error itself) otherwise.
C28_ClassificationIsReference ==
    execState \in {"Waiting", "FailedTransientExhausted", "FailedTerminal"} =>
        /\ lastError \in ErrorShapes
        /\ execState = "FailedTerminal" <=> ~RefTransient(lastError)
        /\ execState = "FailedTerminal" => thrown = lastError
        /\ execState = "FailedTransientExhausted" => thrown # lastError

\* an error with status 400 at the top level, 503 in the nested response and
\* no message was classified terminal: the first truthy status decides
C28_Witness ==
    /\ execState = "FailedTerminal"
    /\ lastError.status = 400
    /\ lastError.response_status = 503
    /\ lastError.message = <<>>
    /\ lastError.error_message = <<>>
    /\ retries < maxRetries

\* a call of withRetry is under way / has ended
Running == execState \in {"Attempting", "Waiting"}

Final == execState \in {"Succeeded", "FailedTransientExhausted", "FailedTerminal"}

\* C29: when attempts settle and timers fire, a call that is under way
\* reaches a final state; it makes at most maxRetries + 1 attempts; an
\* attempt is followed by a wait or a final state and a wait by the next
\* attempt; a wait is pending only when another attempt is allowed, and a
\* call that ended made one attempt more than it waited.
C29_CallTerminates ==
    /\ Running ~> Final
    /\ [](Running \/ Final => attempts \in 1..(maxRetries + 1))
    /\ [](execState = "Waiting" =>
            /\ attempts <= maxRetries
            /\ Len(waits) = attempts)
    /\ [](execState = "Attempting" \/ Final => Len(waits) = attempts - 1)
    /\ [][/\ execState = "Attempting" => execState' = "Waiting" \/ Final'
          /\ execState = "Waiting" =>
                /\ execState' = "Attempting"
                /\ attempts' = attempts + 1
          /\ Final => execState' = "Attempting" /\ attempts' = 1]_vars

\* a call with the default bound succeeded on its third attempt, after two
\* waits
C29_Witness ==
    /\ execState = "Succeeded"
    /\ maxRetries = 5
    /\ attempts = 3
    /\ Len(waits) = 2

----------------------------------------------------------------------------
(* Properties of finalization, over the behaviours of SpecAssets *)

\* the step that ends a finalization flow in failure
AssetsFail ==
    /\ pc \in {"gfa.copy", "gfa.mockup"}
    /\ outcome' = "failed"

\* C7: when finalization of tuple idx fails, the flow ends with no
\* finalized product (the products of the tuples before idx are gone with
\* the handler's frame), on a step other than FINALIZE, with no call in
\* flight and without ever having issued a call for a tuple after idx.
C7_AllOrNothing ==
    [][AssetsFail =>
          /\ finalizedProducts' = <<>>
          /\ allFinalAssets' = <<>>
          /\ step' # "FINALIZE"
          /\ pc' = "idle"
          /\ inFlight' = 0
          /\ ~isLoading'
          /\ \A k \in 1..Len(callLog') : callLog'[k].tuple <= idx]_vars

\* C7 witness: the flow failed in its second tuple, after all thirteen
\* calls of the first tuple had returned
C7_Witness ==
    /\ outcome = "failed"
    /\ finalizedProducts = <<>>
    /\ step = "DESIGN"
    /\ DoneIn(doneLog, 0) = NumTemplates + 1
    /\ \E k \in 1..Len(callLog) : callLog[k].tuple = 1

\* C8 as stated: a successful finalization of T tuples reports a strictly
\* increasing current step, from (0, total) to (total, total), with
\* total = T * (1 + number of templates).
C8_IncreasingOverBatch ==
    outcome = "ok" =>
        LET T     == Len(finalizedProducts)
            total == T * (1 + NumTemplates)
            n     == Len(progressLog)
        IN  /\ n >= 1
            /\ progressLog[1].cur = 0
            /\ progressLog[n].cur = total
            /\ \A k \in 1..n : progressLog[k].total = total
            /\ \A k \in 1..(n - 1) : progressLog[k].cur < progressLog[k + 1].cur

\* C8 amended: a successful finalization of T tuples reports, for each
\* tuple in turn, the pairs (0, 13), (1, 13), ..., (13, 13): the current
\* step increases within a tuple and starts again at 0 with the next one,
\* and total is 1 + number of templates whatever T is.
C8_IncreasingPerTuple ==
    outcome = "ok" =>
        LET T == Len(finalizedProducts)
            n == Len(progressLog)
        IN  /\ n = T * (NumTemplates + 2)
            /\ \A k \in 1..n :
                  /\ progressLog[k].tuple = (k - 1) \div (NumTemplates + 2)
                  /\ progressLog[k].cur = (k - 1) % (NumTemplates + 2)
                  /\ progressLog[k].total = NumTemplates + 1

\* C8 witness: a batch of two tuples succeeded
C8_Witness ==
    /\ outcome = "ok"
    /\ Len(finalizedProducts) = 2
    /\ Len(progressLog) = 2 * (NumTemplates + 2)

\* C9 as stated: whenever step s >= 1 is reported, s remote calls of the
\* tuple (the listing copy and s - 1 mockup calls) have completed.
C9_ReportedAfterStep ==
    \A k \in 1..Len(progressLog) :
        progressLog[k].cur >= 1 => progressLog[k].done >= progressLog[k].cur

\* C9 amended: step 1 is reported when the listing-copy call has completed;
\* a step s >= 2 is reported when the s - 1 steps before it have completed
\* and before its own call (mockup s - 1) is issued.
C9_ReportedBeforeStep ==
    \A k \in 1..Len(progressLog) :
        LET r == progressLog[k] IN
        /\ r.cur <= 1 => r.done = r.cur
        /\ r.cur >= 2 => r.done = r.cur - 1

\* C9 witness: the last step was reported while the twelfth mockup call,
\* just issued, has not returned
C9_Witness ==
    /\ Len(progressLog) >= 1
    /\ progressLog[Len(progressLog)].cur = NumTemplates + 1
    /\ progressLog[Len(progressLog)].done = NumTemplates
    /\ callLog[Len(callLog)] = MockupCall(0, NumTemplates - 1, "Sweatshirt")
    /\ execState = "Attempting"

\* the position of a call in the fixed order of a batch: tuple by tuple,
\* the listing copy first, then the templates
Rank(c) ==
    c.tuple * (NumTemplates + 1) + (IF c.kind = "copy" THEN 0 ELSE c.tmpl + 1)

\* the listing-copy call of tuple t returned a listing copy
CopySucceeded(t) ==
    \E j \in 1..Len(doneLog) :
        /\ doneLog[j].kind = "copy"
        /\ doneLog[j].tuple = t
        /\ doneLog[j].copy # NoCopy

\* C16: the calls of a finalization batch are issued in a fixed order,
\* tuple by tuple in input order, for each tuple the listing copy and then
\* the templates 0..11; a call is issued only after the one before it
\* returned; a mockup call of a tuple is issued only after the tuple's
\* listing-copy call returned a copy; and the products are collected in
\* input order.
C16_CallsInFixedOrder ==
    /\ \A k \in 1..Len(callLog) :
          /\ callLog[k].kind \in {"copy", "mockup"}
          /\ callLog[k].kind = "copy" => callLog[k].tmpl = 0
          /\ callLog[k].tmpl \in 0..(NumTemplates - 1)
          /\ Rank(callLog[k]) = k - 1
          /\ callLog[k].kind = "mockup" => CopySucceeded(callLog[k].tuple)
    /\ Len(doneLog) \in {Len(callLog) - 1, Len(callLog)}
    /\ \A k \in 1..Len(doneLog) :
          /\ doneLog[k].kind = callLog[k].kind
          /\ doneLog[k].tuple = callLog[k].tuple
          /\ doneLog[k].tmpl = callLog[k].tmpl
    /\ pc \in {"gfa.copy", "gfa.mockup", "gfa.pace"} =>
          /\ Len(allFinalAssets) = idx
          /\ \A i \in 1..idx :
                /\ allFinalAssets[i].concept = batch[i].concept
                /\ allFinalAssets[i].designUrl = batch[i].url

\* C16 witness: the second template of the second tuple is called after
\* all thirteen calls of the first tuple and the listing copy and first
\* template of the second returned
C16_Witness ==
    /\ pc = "gfa.mockup"
    /\ execState = "Attempting"
    /\ Len(batch) = 2
    /\ callLog[Len(callLog)] = MockupCall(1, 1, "Sweatshirt")
    /\ Len(doneLog) = NumTemplates + 3

\* the mockup calls issued so far for a template other than the first
LaterCalls == SelectSeq(callLog, LAMBDA c : c.kind = "mockup" /\ c.tmpl >= 1)

\* the pacing delays those calls were issued after
PacesBefore(calls) ==
    [k \in 1..Len(calls) |-> Pace(calls[k].tuple, calls[k].tmpl - 1, 1500)]

\* the number of pacing delays of tuple t
PacesIn(t) == Cardinality({k \in 1..Len(paceLog) : paceLog[k].tuple = t})

\* all twelve mockup calls of tuple t returned
TupleAnswered(t) ==
    \E j \in 1..Len(doneLog) :
        /\ doneLog[j].kind = "mockup"
        /\ doneLog[j].tuple = t
        /\ doneLog[j].tmpl = NumTemplates - 1

\* C17: in a mockup batch every call of a template after the first is
\* issued after a pacing delay of 1500 ms that followed the call of the
\* template before it, whatever that call returned and however many
\* attempts it took; there is no other pacing delay, none after the last
\* template, and a tuple whose twelve calls returned had exactly eleven.
C17_PacedBetweenTemplates ==
    /\ paceLog = IF pc = "gfa.pace"
                    THEN Append(PacesBefore(LaterCalls), Pace(idx, tmpl, 1500))
                    ELSE PacesBefore(LaterCalls)
    /\ \A k \in 1..Len(paceLog) : paceLog[k].tmpl < NumTemplates - 1
    /\ \A k \in 1..Len(callLog) :
          TupleAnswered(callLog[k].tuple) =>
              PacesIn(callLog[k].tuple) = NumTemplates - 1

\* C17 witness: a batch of one tuple ran to the end with eleven pacing
\* delays, although some of its calls returned no image
C17_Witness ==
    /\ outcome = "ok"
    /\ Len(finalizedProducts) = 1
    /\ Len(finalizedProducts[1].mockups) < NumTemplates
    /\ Len(paceLog) = NumTemplates - 1
    /\ paceLog[NumTemplates - 1] = Pace(0, NumTemplates - 2, 1500)

\* C31: every wrapped call of finalization starts with no retry made and
\* the default first delay, whatever the call before it used up: the step
\* that issues a call leaves retries at 0 and the delay at 2000 ms, also
\* when the call before it succeeded only after retries; every call may
\* therefore make maxRetries + 1 attempts, and a tuple has at most 13 calls.
C31_RetryStateNotCarriedOver ==
    /\ [][(callLog' # callLog /\ pc' \in {"gfa.copy", "gfa.mockup"}) =>
             /\ execState' = "Attempting"
             /\ retries' = 0
             /\ delay' = 2000
             /\ maxRetries' = 5
             /\ attempts' = 1
             /\ waits' = <<>>]_vars
    /\ [](pc \in {"gfa.copy", "gfa.mockup"} =>
            /\ attempts <= maxRetries + 1
            /\ \A k \in 1..Len(waits) : waits[k] = 2000 * Pow2(k - 1)
            /\ \A t \in 0..1 :
                  Cardinality({k \in 1..Len(callLog) : callLog[k].tuple = t})
                     <= NumTemplates + 1)

\* the second call of a tuple is at its sixth attempt, after waits that
\* started again at 2000 ms
C31_Witness ==
    /\ pc = "gfa.mockup"
    /\ Len(callLog) = 2
    /\ execState = "Attempting"
    /\ attempts = 6
    /\ retries = 5
    /\ waits = <<2000, 4000, 8000, 16000, 32000>>

\* the progress reports of tuple t, in the order they were made
ReportsOf(t) == SelectSeq(progressLog, LAMBDA r : r.tuple = t)

\* C32: the reports of a tuple are (0,13), (1,13), (2,13), ... in that
\* order, never beyond (13,13), whatever the number of tuples, and exactly
\* these 14 when the flow succeeded; (0,13) is reported on the step that
\* issues the tuple's listing-copy call, (1,13) on the step that takes its
\* answer, and (i+2,13) on the step that issues the mockup call of
\* template i.
C32_FourteenReportsPerTuple ==
    /\ [](\A t \in 0..1 :
            /\ Len(ReportsOf(t)) <= 14
            /\ \A k \in 1..Len(ReportsOf(t)) :
                  /\ ReportsOf(t)[k].cur = k - 1
                  /\ ReportsOf(t)[k].total = 13
                  /\ ReportsOf(t)[k].cur <= ReportsOf(t)[k].total)
    /\ []((outcome = "ok" /\ progressLog # <<>>) =>
            \A t \in 0..(Len(finalizedProducts) - 1) : Len(ReportsOf(t)) = 14)
    /\ [][(progressLog' # progressLog /\ progressLog' # <<>>) =>
             LET r    == progressLog'[Len(progressLog')]
                 sent == callLog'[Len(callLog')]
                 got  == doneLog'[Len(doneLog')]
             IN  /\ r.cur = 0 =>
                       /\ sent = Call("copy", r.tuple, 0)
                       /\ Len(doneLog') = Len(callLog') - 1
                       /\ attempts' = 1
                 /\ r.cur \in {1, 2} =>
                       /\ doneLog' = Append(doneLog, got)
                       /\ got.kind = "copy"
                       /\ got.tuple = r.tuple
                 /\ r.cur >= 2 =>
                       /\ callLog' = Append(callLog, sent)
                       /\ sent.kind = "mockup"
                       /\ sent.tuple = r.tuple
                       /\ sent.tmpl = r.cur - 2]_vars

\* one tuple was finalized with its 14 reports
C32_Witness ==
    /\ outcome = "ok"
    /\ Len(finalizedProducts) = 1
    /\ Len(progressLog) = 14
    /\ progressLog[1].cur = 0
    /\ progressLog[14].cur = 13
    /\ progressLog[14].total = 13

\* the executor gave up on the mockup call of the template in turn
MockupCallFailed == pc = "gfa.mockup" /\ execState \in Failed

\* C30: when the executor fails on the mockup call of a template, the next
\* step ends the flow in failure with the error the executor threw: no
\* further call is issued, and the images collected so far and the listing
\* copy are dropped with the tuple, whose product is not finalized. Every
\* call that is followed by another call was answered successfully: a
\* template is passed over only after its call returned.
C30_ExecutorFailureAbortsTuple ==
    /\ [][MockupCallFailed =>
             /\ outcome' = "failed"
             /\ error' = (IF thrown.isError THEN thrown.message
                                            ELSE <<"[object Object]">>)
             /\ callLog' = callLog
             /\ doneLog' = doneLog
             /\ mockupUrls' = <<>>
             /\ listingCopy' = NoCopy
             /\ allFinalAssets' = <<>>
             /\ finalizedProducts' = <<>>
             /\ step' = "DESIGN"
             /\ pc' = "idle"]_vars
    /\ [](\A k \in 1..(Len(callLog) - 1) :
            /\ k <= Len(doneLog)
            /\ doneLog[k].kind = callLog[k].kind
            /\ doneLog[k].tuple = callLog[k].tuple
            /\ doneLog[k].tmpl = callLog[k].tmpl)
    /\ [](MockupCallFailed =>
            /\ thrown # NoError
            /\ Len(doneLog) = Len(callLog) - 1
            /\ callLog[Len(callLog)] =
                  MockupCall(idx, tmpl, batch[idx + 1].productType))

\* the flow failed on the mockup call of the third template with a terminal
\* error, after the first template had yielded an image and the second had
\* been skipped
C30_Witness ==
    /\ outcome = "failed"
    /\ error = <<"Bad", "request">>
    /\ Len(callLog) = 4
    /\ callLog[4].kind = "mockup"
    /\ callLog[4].tmpl = 2
    /\ Len(doneLog) = 3
    /\ doneLog[2].image
    /\ ~doneLog[3].image
    /\ finalizedProducts = <<>>

\* the step on which a flow ends in failure
FlowFails == outcome # "failed" /\ outcome' = "failed"

\* C22: when a flow fails, it has issued its last remote call and none is
\* in flight, the session's error is the message of the failure (for a
\* failed remote call: of the error the executor threw), loading is
\* cleared, the step is unchanged and no flow is running.
C22_FailureSurfaced ==
    [][FlowFails =>
          /\ execState \in Failed => error' = MessageOf(thrown)
          /\ error' # Null
          /\ ~isLoading'
          /\ step' = step
          /\ pc' = "idle"
          /\ activeFlows' = 0
          /\ inFlight' = 0
          /\ callLog' = callLog]_vars

\* C23: a tuple whose design URL is malformed fails before any remote call
\* is issued for it: no remote call of finalization is ever pending or
\* answered for a tuple whose design URL has no header or no data part.
C23_MalformedFailsBeforeCalls ==
    (pc \in {"gfa.copy", "gfa.mockup", "gfa.pace"}) =>
        ValidDataUrl(batch[idx + 1].url)

----------------------------------------------------------------------------
(* Properties of the application, over the behaviours of Spec *)

\* the flow ended in failure on a design-rendering call that returned
\* without an extractable image
DesignWithoutImage ==
    /\ outcome = "failed"
    /\ doneLog # <<>>
    /\ Len(doneLog) = Len(callLog)
    /\ doneLog[Len(doneLog)].kind = "design"
    /\ ~doneLog[Len(doneLog)].image

\* C18: when a design-rendering call returns without an extractable image,
\* the flow fails with the "No image was generated." error, and the
\* collaborator was called once for that design.
C18_NoImageGenerated ==
    DesignWithoutImage =>
        /\ error = <<"No image was generated.">>
        /\ Cardinality({k \in 1..Len(callLog) :
                           callLog[k].tuple = doneLog[Len(doneLog)].tuple}) = 1

\* the listing copy the collaborator returned for tuple t of the batch
ReturnedCopy(t, copy) ==
    \E j \in 1..Len(doneLog) :
        /\ doneLog[j].kind = "copy"
        /\ doneLog[j].tuple = t
        /\ doneLog[j].copy = copy

\* a finalization flow ended with its products on display
AssetsForged ==
    /\ outcome = "ok"
    /\ doneLog # <<>>
    /\ doneLog[1].kind = "copy"

\* the create-product call in flight posts title, description and tags of
\* this listing copy
PostsCopy(copy) ==
    LET sent == callLog[Len(callLog)] IN
    /\ sent.kind = "create"
    /\ sent.payload.title = copy.titleLen
    /\ sent.payload.description = copy.descLen
    /\ sent.payload.tags.count = copy.tagCount
    /\ sent.payload.tags.maxLen = copy.maxTagLen

\* C19: the listing copy of each finalized product is the one the
\* collaborator returned for its tuple, whatever its title length, tag
\* count and tag lengths; it stays the same for as long as the product is
\* on display; and the create-product call of a product posts exactly the
\* title, description and tags of that copy.
C19_CopyAcceptedUnchanged ==
    /\ [](AssetsForged =>
            \A i \in 1..Len(finalizedProducts) :
                ReturnedCopy(i - 1, finalizedProducts[i].listingCopy))
    /\ [](pc = "pub.create" =>
            \E k \in 1..Len(finalizedProducts) :
                /\ finalizedProducts[k] = batch[1]
                /\ PostsCopy(finalizedProducts[k].listingCopy))
    /\ [][(finalizedProducts # <<>> /\ finalizedProducts' # <<>>) =>
             /\ Len(finalizedProducts') = Len(finalizedProducts)
             /\ \A k \in 1..Len(finalizedProducts) :
                   finalizedProducts'[k].listingCopy =
                       finalizedProducts[k].listingCopy]_vars

\* C19 witness: the create-product call of a product whose listing copy has
\* a title of 141 characters and 14 tags, one of 21 characters, is in
\* flight with that title and those tags
C19_Witness ==
    /\ pc = "pub.create"
    /\ batch[1].listingCopy.titleLen = 141
    /\ callLog[Len(callLog)].kind = "create"
    /\ callLog[Len(callLog)].payload.title = 141
    /\ callLog[Len(callLog)].payload.tags = [count |-> 14, maxLen |-> 21]

\* C10: at most one flow is active and at most one remote call is in
\* flight; a call is in flight only inside the one active flow, which shows
\* the loader; and a flow has issued at most one call that has not returned.
C10_OneFlowOneCall ==
    /\ activeFlows \in {0, 1}
    /\ inFlight \in {0, 1}
    /\ inFlight = 1 => activeFlows = 1
    /\ activeFlows = 1 <=> isLoading
    /\ Len(callLog) - Len(doneLog) \in {0, 1}
    /\ inFlight = 1 => Len(callLog) = Len(doneLog) + 1

\* C10 witness: a later call of a flow is in flight after the earlier ones
\* returned
C10_Witness ==
    /\ isLoading
    /\ activeFlows = 1
    /\ inFlight = 1
    /\ pc = "gfa.mockup"
    /\ tmpl = 2
    /\ Len(doneLog) = 3

\* the design flow is running
ForgingDesigns == pc \in {"design", "design.pace"}

\* the concepts of a sequence, as a set
ConceptsOf(seq) == {seq[k] : k \in 1..Len(seq)}

\* C24: forging designs renders each selected concept exactly once, one
\* after the other in selection order (render k is issued only once render
\* k - 1 has returned an image), with one pacing delay of the fixed length
\* after every render but the last; the step on which the flow succeeds
\* comes after one render per selected concept, adds no pacing delay, puts
\* one rendered design per selected concept in the session and sets the
\* step to DESIGN.
C24_OneRenderPerConcept ==
    /\ [](ForgingDesigns =>
            /\ batch = selectedVariations
            /\ Len(callLog) <= Len(selectedVariations)
            /\ \A k \in 1..Len(callLog) : callLog[k] = Call("design", k - 1, 0)
            /\ Len(doneLog) =
                  IF pc = "design" THEN Len(callLog) - 1 ELSE Len(callLog)
            /\ \A k \in 1..Len(doneLog) :
                  doneLog[k] = Done("design", k - 1, 0, TRUE)
            /\ Len(paceLog) = Len(doneLog)
            /\ \A k \in 1..Len(paceLog) :
                  paceLog[k] = Pace(k - 1, 0, PacingDelay)
            /\ Len(paceLog) < Len(selectedVariations))
    /\ [][(pc = "design" /\ outcome' = "ok") =>
             /\ Len(callLog) = Len(selectedVariations)
             /\ callLog' = callLog
             /\ Len(paceLog) = Len(selectedVariations) - 1
             /\ paceLog' = paceLog
             /\ DOMAIN generatedDesigns' = ConceptsOf(selectedVariations)
             /\ \A c \in ConceptsOf(selectedVariations) :
                   ValidDataUrl(generatedDesigns'[c])
             /\ step' = "DESIGN"]_vars

\* two concepts selected in the order B, A were rendered in that order with
\* one pacing delay between the renders
C24_Witness ==
    /\ outcome = "ok"
    /\ step = "DESIGN"
    /\ selectedVariations = <<"B", "A">>
    /\ callLog = <<Call("design", 0, 0), Call("design", 1, 0)>>
    /\ paceLog = <<Pace(0, 0, 1500)>>
    /\ DOMAIN generatedDesigns = {"A", "B"}

\* C33: while designs are forged the session holds no rendered design and
\* no selected design, and the step is IDEATION; the step on which the
\* flow fails leaves all three so, drops the designs rendered so far and
\* issues no call, and no render was issued for a concept after the one in
\* turn.
C33_DesignsAllOrNothing ==
    /\ [](ForgingDesigns =>
            /\ generatedDesigns = <<>>
            /\ selectedDesigns = <<>>
            /\ step = "IDEATION")
    /\ [][(ForgingDesigns /\ outcome' = "failed") =>
             /\ generatedDesigns' = <<>>
             /\ selectedDesigns' = <<>>
             /\ newDesigns' = <<>>
             /\ step' = "IDEATION"
             /\ pc' = "idle"
             /\ ~isLoading'
             /\ inFlight' = 0
             /\ callLog' = callLog
             /\ \A k \in 1..Len(callLog) : callLog[k].tuple <= idx]_vars

\* the render of the second of two selected concepts failed after the
\* first had been rendered
C33_Witness ==
    /\ outcome = "failed"
    /\ step = "IDEATION"
    /\ Len(selectedVariations) = 2
    /\ callLog = <<Call("design", 0, 0), Call("design", 1, 0)>>
    /\ doneLog = <<Done("design", 0, 0, TRUE)>>
    /\ generatedDesigns = <<>>
    /\ error # Null

----------------------------------------------------------------------------
(* Properties of the publish flow, over the behaviours of SpecPublish *)

\* the answer that ended the publish flow in failure
FailedOn == fetchLog[Len(fetchLog)]

\* the publish flow ended in failure on an answer of the commerce service
PublishFailed == outcome = "failed" /\ fetchLog # <<>>

\* the number of times the call of this kind was attempted in the flow
FetchesOf(kind) ==
    Cardinality({k \in 1..Len(fetchLog) : fetchLog[k].kind = kind})

\* C11: a publish call (resolve shop, upload image, create product) that
\* fails with a transient status (429 or 503) is retried up to the retry
\* bound: the publish flow fails on such an answer only after the call was
\* attempted 1 + 5 times.
C11_PublishCallsRetried ==
    (PublishFailed /\ FailedOn.status \in {429, 503}) =>
        FetchesOf(FailedOn.kind) = DefaultMaxRetries + 1

\* the step on which createPrintifyProduct returns the created product
PublishSucceeds ==
    /\ pc = "pub.create"
    /\ outcome' = "ok"

\* the positions of product p in the list of finalized products
PositionsOf(p) == {k \in 1..Len(finalizedProducts) : finalizedProducts[k] = p}

\* C12: a successful publish of product p leaves the list of finalized
\* products with the same length and order; p, and only p, gets the
\* returned publish id; every other field of p and every other product is
\* unchanged.
C12_OnlyPublishedGetsId ==
    [][PublishSucceeds =>
          LET p == batch[1] IN
          /\ Cardinality(PositionsOf(p)) = 1
          /\ Len(finalizedProducts') = Len(finalizedProducts)
          /\ \A k \in 1..Len(finalizedProducts) :
                IF k \in PositionsOf(p)
                   THEN /\ finalizedProducts'[k].printifyId \in PublishIds
                        /\ finalizedProducts'[k] =
                              [concept     |-> p.concept,
                               designUrl   |-> p.designUrl,
                               mockups     |-> p.mockups,
                               listingCopy |-> p.listingCopy,
                               productType |-> p.productType,
                               printifyId  |->
                                   finalizedProducts'[k].printifyId]
                   ELSE finalizedProducts'[k] = finalizedProducts[k]]_vars

\* C12 witness: the second product was published and carries its id, the
\* first one, not yet published, carries none
C12_Witness ==
    /\ outcome = "ok"
    /\ Len(fetchLog) = 3
    /\ Len(finalizedProducts) = 2
    /\ finalizedProducts[1].printifyId = ""
    /\ finalizedProducts[2].printifyId \in PublishIds

\* a step that starts a publish flow
PublishStarts == pc # "pub.shop" /\ pc' = "pub.shop"

\* a step that issues the create-product call
CreateIssued == pc # "pub.create" /\ pc' = "pub.create"

\* product p is on the finalize screen and carries no publish id
Unpublished(p) ==
    /\ p.printifyId = ""
    /\ \E k \in 1..Len(finalizedProducts) : finalizedProducts[k] = p

\* C13: a publish flow is started, and a create-product call is issued,
\* only for a finalized product that carries no publish id; and a product
\* that carries a publish id keeps it, with all its fields, for as long as
\* its batch is on display.
C13_PublishedOnce ==
    [][/\ PublishStarts => Unpublished(batch'[1])
       /\ CreateIssued => Unpublished(batch[1])
       /\ \A k \in 1..Len(finalizedProducts) :
             finalizedProducts[k].printifyId # "" =>
                \/ finalizedProducts' = <<>>
                \/ /\ Len(finalizedProducts') = Len(finalizedProducts)
                   /\ finalizedProducts'[k] = finalizedProducts[k]]_vars

\* C13 witness: with the first product published, the create-product call
\* of the second one is in flight
C13_Witness ==
    /\ pc = "pub.create"
    /\ Len(finalizedProducts) = 2
    /\ finalizedProducts[1].printifyId \in PublishIds
    /\ batch[1] = finalizedProducts[2]
    /\ batch[1].printifyId = ""

\* the text that names the stage in the error of a publish call
StageText(kind) ==
    CASE kind = "shop"   ->
            "Failed to fetch Printify shops. Check your API Token."
      [] kind = "upload" -> "Image upload failed:"
      [] kind = "create" -> "Product creation failed:"

\* C20: when a publish call is answered with an HTTP failure status, the
\* flow fails with the error of that stage, and the error text includes
\* the error payload the commerce service sent.
C20_FailureCarriesPayload ==
    (PublishFailed /\ FailedOn.status # 0 /\ ~Ok(FailedOn)) =>
        /\ error[1] = StageText(FailedOn.kind)
        /\ Includes(error, <<Payload>>)

\* the calls of a publish flow, in their order
PublishOrder == <<"shop", "upload", "create">>

\* the fetch answered with a parsable ok response (for the shops: one that
\* lists a shop)
Answered(f) ==
    /\ f.status = 200
    /\ f.json
    /\ f.kind = "shop" => f.shops >= 1

\* the resolve-shop call was answered with an empty list of shops
ZeroShops ==
    /\ fetchLog # <<>>
    /\ fetchLog[1].kind = "shop"
    /\ fetchLog[1].status = 200
    /\ fetchLog[1].json
    /\ fetchLog[1].shops = 0

\* C21: a publish flow issues resolve shop, upload image and create
\* product in this order, each after the one before it was answered
\* successfully; with zero shops the flow fails at the first call, issues
\* neither upload nor create product, and attaches no publish id.
C21_PublishCallsInOrder ==
    /\ []((callLog # <<>> /\ callLog[1].kind = "shop") =>
            /\ Len(callLog) <= 3
            /\ \A k \in 1..Len(callLog) : callLog[k].kind = PublishOrder[k]
            /\ Len(fetchLog) \in {Len(callLog) - 1, Len(callLog)}
            /\ \A k \in 1..Len(fetchLog) :
                  /\ fetchLog[k].kind = callLog[k].kind
                  /\ k < Len(callLog) => Answered(fetchLog[k]))
    /\ [](ZeroShops =>
            /\ outcome = "failed"
            /\ error = <<"No Printify shops found for this account.">>
            /\ Len(callLog) = 1
            /\ Len(fetchLog) = 1)
    /\ [][(pc \in {"pub.shop", "pub.upload"}) =>
             finalizedProducts' = finalizedProducts]_vars

\* C21 witness: after the first product was published by three calls, the
\* publish of the second one failed on a credential with zero shops, and
\* the second product carries no id
C21_Witness ==
    /\ ZeroShops
    /\ outcome = "failed"
    /\ callLog = <<Call("shop", 0, 0)>>
    /\ Len(finalizedProducts) = 2
    /\ finalizedProducts[1].printifyId \in PublishIds
    /\ finalizedProducts[2].printifyId = ""

\* the finalization flow is running
ForgingAssets == pc \in {"gfa.copy", "gfa.mockup", "gfa.pace"}

\* the product type of design item d is the one chosen for its design: that
\* of the selected item with its URL, or the session's when none is selected
TypeChosen(d) ==
    /\ \A j \in 1..Len(selectedDesigns) :
          selectedDesigns[j].url = d.url =>
              d.productType = selectedDesigns[j].productType
    /\ (\A j \in 1..Len(selectedDesigns) : selectedDesigns[j].url # d.url) =>
          d.productType = productType

\* the selected designs whose product type this step changes
Retyped ==
    {i \in 1..Len(selectedDesigns') :
        \E j \in 1..Len(selectedDesigns) :
            /\ selectedDesigns[j].url = selectedDesigns'[i].url
            /\ selectedDesigns[j].productType # selectedDesigns'[i].productType}

\* C25: a design enters the selection with the session's product type, and
\* a step changes the product type of at most one selected design;
\* finalization starts with the product type chosen for each design, writes
\* every mockup prompt of a tuple for that product type and, on success,
\* gives each finalized product the product type of its tuple; the
\* create-product call posts the catalog entry of the product type of the
\* product being published.
C25_ProductTypeFollowsDesign ==
    /\ [][\A i \in 1..Len(selectedDesigns') :
             (\A j \in 1..Len(selectedDesigns) :
                 selectedDesigns[j].url # selectedDesigns'[i].url) =>
                 selectedDesigns'[i].productType = productType]_vars
    /\ [][Cardinality(Retyped) <= 1]_vars
    /\ [][(pc = "idle" /\ pc' = "gfa.copy") =>
             \A i \in 1..Len(batch') : TypeChosen(batch'[i])]_vars
    /\ [][(ForgingAssets /\ pc' # "idle") => batch' = batch]_vars
    /\ [](ForgingAssets =>
            \A k \in 1..Len(callLog) :
                callLog[k].kind = "mockup" =>
                    callLog[k].prompt.productType =
                        batch[callLog[k].tuple + 1].productType)
    /\ [][(ForgingAssets /\ outcome' = "ok") =>
             /\ Len(finalizedProducts') = Len(batch)
             /\ \A k \in 1..Len(batch) :
                   /\ finalizedProducts'[k].designUrl = batch[k].url
                   /\ finalizedProducts'[k].productType = batch[k].productType]_vars
    /\ [](pc = "pub.create" =>
            /\ \E k \in 1..Len(finalizedProducts) :
                  finalizedProducts[k] = batch[1]
            /\ callLog[Len(callLog)].payload.blueprint_id =
                  (IF batch[1].productType = "Sweatshirt" THEN 53 ELSE 68)
            /\ callLog[Len(callLog)].payload.print_provider_id =
                  (IF batch[1].productType = "Sweatshirt" THEN 29 ELSE 23))

\* the design of concept A, selected as a sweatshirt, was changed to a mug,
\* that of concept B from a mug to a sweatshirt; both were finalized and the
\* mug of concept A was published with the mug's catalog entry
C25_Witness ==
    /\ outcome = "ok"
    /\ productType = "Sweatshirt"
    /\ Len(finalizedProducts) = 2
    /\ finalizedProducts[1].concept = "A"
    /\ finalizedProducts[1].productType = "Mug"
    /\ finalizedProducts[1].printifyId # ""
    /\ finalizedProducts[2].concept = "B"
    /\ finalizedProducts[2].productType = "Sweatshirt"
    /\ callLog # <<>>
    /\ callLog[Len(callLog)].kind = "create"
    /\ callLog[Len(callLog)].payload.blueprint_id = 68

\* the publish flow is running
Publishing == pc \in {"pub.shop", "pub.upload", "pub.create"}

\* C38: while no token is set no publish flow starts, so a publish action
\* issues no remote call; the step that opens the settings dialog while no
\* token is set changes nothing else of the session: the finalized
\* products, the step, the error, the loading flag, the token and the
\* selections are as before and no call is in flight.
C38_PublishWithoutToken ==
    /\ [][(printifyToken = "" /\ ~Publishing) =>
             /\ ~Publishing'
             /\ fetchLog' \in {fetchLog, <<>>}]_vars
    /\ [][(printifyToken = "" /\ ~showSettings /\ showSettings') =>
             /\ finalizedProducts' = finalizedProducts
             /\ step' = step
             /\ error' = error
             /\ isLoading' = isLoading
             /\ printifyToken' = printifyToken
             /\ selectedDesigns' = selectedDesigns
             /\ generatedDesigns' = generatedDesigns
             /\ pc' = pc
             /\ inFlight' = inFlight
             /\ activeFlows' = activeFlows]_vars

\* the settings dialog is open on the FINALIZE step with no token set, no
\* flow running and no product published
C38_Witness ==
    /\ step = "FINALIZE"
    /\ showSettings
    /\ printifyToken = ""
    /\ pc = "idle"
    /\ ~isLoading
    /\ callLog = <<>>
    /\ fetchLog = <<>>
    /\ \A k \in 1..Len(finalizedProducts) :
          finalizedProducts[k].printifyId = ""
    /\ Len(finalizedProducts) = 2

\* C39: a step of the publish flow changes the finalized products only
\* when the create-product call was answered with a success and a JSON
\* body; the step on which the flow fails, after any of the three calls,
\* leaves them unchanged and keeps nothing of the flow; every publish flow
\* starts at the resolve-shop call, and its create-product call follows an
\* upload answered in the same flow.
C39_FailedPublishAttachesNothing ==
    /\ [][(Publishing /\ finalizedProducts' # finalizedProducts) =>
             /\ pc = "pub.create"
             /\ outcome' = "ok"
             /\ fetchLog'[Len(fetchLog')].kind = "create"
             /\ fetchLog'[Len(fetchLog')].status \in 200..299
             /\ fetchLog'[Len(fetchLog')].json]_vars
    /\ [][(Publishing /\ outcome' = "failed") =>
             /\ finalizedProducts' = finalizedProducts
             /\ pc' = "idle"
             /\ batch' = <<>>
             /\ inFlight' = 0
             /\ ~isLoading'
             /\ callLog' = callLog]_vars
    /\ [][(~Publishing /\ Publishing') =>
             /\ pc' = "pub.shop"
             /\ callLog' = <<Call("shop", 0, 0)>>
             /\ fetchLog' = <<>>
             /\ doneLog' = <<>>]_vars
    /\ [](pc = "pub.create" =>
            /\ Len(fetchLog) = 2
            /\ fetchLog[2].kind = "upload"
            /\ fetchLog[2].status \in 200..299
            /\ callLog[2].kind = "upload")

\* a publish failed on the create-product call with status 503 after its
\* upload had succeeded, and no product has an id
C39_Witness ==
    /\ outcome = "failed"
    /\ Len(fetchLog) = 3
    /\ fetchLog[2].kind = "upload"
    /\ fetchLog[2].status = 200
    /\ fetchLog[3].kind = "create"
    /\ fetchLog[3].status = 503
    /\ \A k \in 1..Len(finalizedProducts) :
          finalizedProducts[k].printifyId = ""

----------------------------------------------------------------------------
(* Properties of the selections, over the behaviours of SpecSelection *)

\* no two entries of a sequence agree on the key
NoTwoSame(seq, Key(_)) ==
    \A i, j \in 1..Len(seq) : Key(seq[i]) = Key(seq[j]) => i = j

TitleOf(c) == c

UrlOf(d) == d.url

\* C35: the concept selection never holds two concepts with the same title
\* and the design selection never two entries with the same design URL; a
\* toggle of an item that is not selected appends it, and a second toggle
\* of the same item gives back the selection as it was, entries and order.
C35_SelectionsWithoutDuplicates ==
    /\ NoTwoSame(selectedVariations, TitleOf)
    /\ NoTwoSame(selectedDesigns, UrlOf)
    /\ \A k \in 1..Len(variations) :
          LET once == ToggleConcept(selectedVariations, variations[k]) IN
          (\A i \in 1..Len(selectedVariations) :
              selectedVariations[i] # variations[k]) =>
              /\ once = Append(selectedVariations, variations[k])
              /\ ToggleConcept(once, variations[k]) = selectedVariations
    /\ \A k \in 1..Len(variations) :
          (HasCard(k) /\ \A i \in 1..Len(selectedDesigns) :
                            selectedDesigns[i].url # CardUrl(k)) =>
              LET once == ToggleDesign(selectedDesigns, variations[k],
                                       CardUrl(k), productType)
              IN  /\ Len(once) = Len(selectedDesigns) + 1
                  /\ once[Len(once)].url = CardUrl(k)
                  /\ ToggleDesign(once, variations[k], CardUrl(k),
                                  productType) = selectedDesigns

\* both designs, rendered to different images, are selected in the order
\* B, A
C35_Witness ==
    /\ step = "DESIGN"
    /\ Len(selectedDesigns) = 2
    /\ selectedDesigns[1].concept = "B"
    /\ selectedDesigns[2].concept = "A"
    /\ selectedDesigns[1].url # selectedDesigns[2].url
    /\ Len(selectedVariations) = 2

\* the design shown on card k is in the design selection
CardSelected(k) ==
    \E i \in 1..Len(selectedDesigns) : selectedDesigns[i].url = CardUrl(k)

\* C36: changing the product type of a design that is not selected leaves
\* the design selection as it is; deselecting a selected design removes
\* its entry, and selecting it again appends an entry with the session's
\* product type, whatever product type the entry had before; an entry
\* whose product type differs from the session's was selected before the
\* step that gave it that type.
C36_OverrideOnlyWhileSelected ==
    /\ [](\A k \in 1..Len(variations), pt \in ProductTypes :
            (HasCard(k) /\ ~CardSelected(k)) =>
                ChangeProductType(selectedDesigns, CardUrl(k), pt)
                    = selectedDesigns)
    /\ [](\A k \in 1..Len(variations) :
            (HasCard(k) /\ CardSelected(k)) =>
                LET off == ToggleDesign(selectedDesigns, variations[k],
                                        CardUrl(k), productType)
                    on  == ToggleDesign(off, variations[k], CardUrl(k),
                                        productType)
                IN  /\ \A i \in 1..Len(off) : off[i].url # CardUrl(k)
                    /\ Len(on) = Len(off) + 1
                    /\ on[Len(on)].url = CardUrl(k)
                    /\ on[Len(on)].productType = productType)
    /\ [][\A i \in 1..Len(selectedDesigns') :
             selectedDesigns'[i].productType # productType =>
                 \E j \in 1..Len(selectedDesigns) :
                     selectedDesigns[j].url = selectedDesigns'[i].url]_vars

\* a selected design carries an override while the other design, not
\* selected, has none
C36_Witness ==
    /\ step = "DESIGN"
    /\ Len(selectedDesigns) = 1
    /\ selectedDesigns[1].productType # productType
    /\ \E k \in 1..Len(variations) : HasCard(k) /\ ~CardSelected(k)

----------------------------------------------------------------------------
(* Progress of the flows, over the behaviours of SpecFair *)

\* C37: every flow that was started ends, and loading is cleared when it
\* has ended; loading is set while a flow runs, hence whenever a remote
\* call is in flight, and is never set forever.
C37_EveryFlowEnds ==
    /\ (pc # "idle") ~> (pc = "idle" /\ ~isLoading /\ outcome # NoOutcome)
    /\ isLoading ~> ~isLoading
    /\ [](inFlight > 0 => isLoading)
    /\ [](isLoading <=> pc # "idle")
    /\ [](isLoading <=> activeFlows = 1)

\* a flow has ended in failure with loading cleared
C37_Witness ==
    /\ pc = "idle"
    /\ outcome = "failed"
    /\ ~isLoading
    /\ inFlight = 0
    /\ step = "FINALIZE"
    /\ fetchLog # <<>>

====
